---- MODULE Spec2Model ----
(***************************************************************************)
(* Date/time resolution, disambiguation and validation of the healthcare   *)
(* MCP backend (package handlers: ParseDateTimeRobust, parseSlashFormat,   *)
(* parseRelativeDate, nextWeekday, ValidateDateTime) and the               *)
(* schedule-appointment handler that persists encounters.                  *)
(*                                                                         *)
(* Instants are whole seconds since 2000-01-01T00:00:00Z.  A time.Time is  *)
(* a record [t |-> instant, ns |-> nanoseconds, loc |-> location]; a       *)
(* location is "UTC", "Berlin" (Europe/Berlin, CET/CEST with the EU rule   *)
(* in force since 1996) or "Tokyo" (a fixed +09:00 zone standing for any   *)
(* other zone).  Strings are sequences of one-character strings.           *)
(***************************************************************************)
EXTENDS Integers, Sequences, FiniteSets, TLC

\* ------------------------------------------------------------------------
\* Civil calendar (package time of the Go runtime, as used by the handlers)
\* ------------------------------------------------------------------------

SecondsPerMinute == 60
SecondsPerHour == 3600
SecondsPerDay == 86400

IsLeap(y) == y % 4 = 0 /\ (y % 100 # 0 \/ y % 400 = 0)

DaysBefore == <<0, 31, 59, 90, 120, 151, 181, 212, 243, 273, 304, 334, 365>>

\* Days in month m (1..12) of year y.
DaysIn(m, y) ==
  IF m = 2 /\ IsLeap(y) THEN 29 ELSE DaysBefore[m + 1] - DaysBefore[m]

\* Days from 0001-01-01 to y-01-01 (proleptic Gregorian), y >= 1.
DaysToYear(y) ==
  LET p == y - 1 IN 365 * p + (p \div 4) - (p \div 100) + (p \div 400)

\* Day number of y-m-01 plus (d - 1), counted from 2000-01-01; m in 1..12,
\* d any integer (time.Date adds day-1 without range check).
DaysFromCivil(y, m, d) ==
  (DaysToYear(y) - DaysToYear(2000)) + DaysBefore[m]
    + (IF IsLeap(y) /\ m >= 3 THEN 1 ELSE 0) + (d - 1)

\* Civil date of a day number counted from 2000-01-01: the number is
\* counted from 0000-03-01, split into 400-year eras, the year of the era,
\* the day of the year (from 1 March) and the month (from March).
YearOfEra(doe) ==
  (doe - (doe \div 1460) + (doe \div 36524) - (doe \div 146096)) \div 365

CivilOfMonth(marchYear, doy, mp) ==
  [year |-> marchYear + (IF mp < 10 THEN 0 ELSE 1),
   month |-> IF mp < 10 THEN mp + 3 ELSE mp - 9,
   day |-> doy - ((153 * mp + 2) \div 5) + 1]

CivilOfDayOfYear(marchYear, doy) ==
  CivilOfMonth(marchYear, doy, (5 * doy + 2) \div 153)

CivilOfYearOfEra(era, doe, yoe) ==
  CivilOfDayOfYear(yoe + era * 400,
                   doe - (365 * yoe + (yoe \div 4) - (yoe \div 100)))

CivilOfEra(era, doe) == CivilOfYearOfEra(era, doe, YearOfEra(doe))

CivilFromDays(n) ==
  CivilOfEra((n + 730425) \div 146097, (n + 730425) % 146097)

\* time.Weekday: Sunday = 0 .. Saturday = 6 (2000-01-01 was a Saturday).
WeekdayOfDays(n) == (n + 6) % 7

Sunday == 0
Monday == 1
Tuesday == 2
Wednesday == 3
Thursday == 4
Friday == 5
Saturday == 6

\* ------------------------------------------------------------------------
\* Locations
\* ------------------------------------------------------------------------

\* Day number of the last Sunday up to day number d.
SundayUpTo(d) == d - WeekdayOfDays(d)

\* Day number of the last Sunday of a 31-day month.
LastSunday(y, m) == SundayUpTo(DaysFromCivil(y, m, 31))

\* Offset of Europe/Berlin from UTC at UTC instant u of year y: CEST from
\* the last Sunday of March 01:00 UTC to the last Sunday of October 01:00
\* UTC.
BerlinOffsetIn(y, u) ==
  IF /\ LastSunday(y, 3) * SecondsPerDay + SecondsPerHour <= u
     /\ u < LastSunday(y, 10) * SecondsPerDay + SecondsPerHour
  THEN 2 * SecondsPerHour
  ELSE SecondsPerHour

BerlinOffset(u) == BerlinOffsetIn(CivilFromDays(u \div SecondsPerDay).year, u)

TokyoOffset == 32400

\* Location.lookup: the offset in force in loc at UTC instant u.
ZoneOffset(loc, u) ==
  CASE loc = "UTC" -> 0
    [] loc = "Berlin" -> BerlinOffset(u)
    [] loc = "Tokyo" -> TokyoOffset

\* ------------------------------------------------------------------------
\* time.Time
\* ------------------------------------------------------------------------

\* t.In(loc)
In(tm, loc) == [t |-> tm.t, ns |-> tm.ns, loc |-> loc]

\* The civil fields of wall-clock second l (seconds since 2000-01-01 00:00
\* on the wall clock).
CivilFields(c, s, weekday) ==
  [year |-> c.year, month |-> c.month, day |-> c.day,
   hour |-> s \div SecondsPerHour,
   minute |-> (s % SecondsPerHour) \div SecondsPerMinute,
   second |-> s % SecondsPerMinute,
   weekday |-> weekday]

CivilAtWall(l) ==
  CivilFields(CivilFromDays(l \div SecondsPerDay), l % SecondsPerDay,
              WeekdayOfDays(l \div SecondsPerDay))

\* The civil fields of tm in its own location (t.Year(), t.Month(), ...).
Civil(tm) == CivilAtWall(tm.t + ZoneOffset(tm.loc, tm.t))

\* The instant of a wall-clock second in loc: the zone offset is the one in
\* force at the wall time, looked up a second time near a transition.
DateWithOffset(wall, off1, nsec, loc) ==
  [t |-> wall - (IF off1 = 0 THEN 0 ELSE ZoneOffset(loc, wall - off1)),
   ns |-> nsec, loc |-> loc]

DateAtWall(wall, nsec, loc) ==
  DateWithOffset(wall, ZoneOffset(loc, wall), nsec, loc)

\* time.Date(year, month, day, hour, min, sec, nsec, loc): the month overflows
\* into the year, day/hour/min/sec are added linearly (so an out-of-range
\* day rolls over into the next month).
GoDate(year, month, day, hour, min, sec, nsec, loc) ==
  DateAtWall(DaysFromCivil(year + ((month - 1) \div 12), ((month - 1) % 12) + 1, day)
               * SecondsPerDay
               + hour * SecondsPerHour + min * SecondsPerMinute + sec,
             nsec, loc)

\* ------------------------------------------------------------------------
\* Strings (packages strings, fmt and regexp as the handlers use them)
\* ------------------------------------------------------------------------

Digits == {"0", "1", "2", "3", "4", "5", "6", "7", "8", "9"}

DigitVal ==
  [c \in Digits |->
     CASE c = "0" -> 0 [] c = "1" -> 1 [] c = "2" -> 2 [] c = "3" -> 3
       [] c = "4" -> 4 [] c = "5" -> 5 [] c = "6" -> 6 [] c = "7" -> 7
       [] c = "8" -> 8 [] c = "9" -> 9]

\* White space: what strings.TrimSpace strips and what \s matches.
Spaces == {" ", "\t"}

\* The character of s at position p, "" past either end.
At(s, p) == IF p >= 1 /\ p <= Len(s) THEN s[p] ELSE ""

IsDigitAt(s, p) == At(s, p) \in Digits

\* The text of s from p through q (empty when q < p).
Slice(s, p, q) == IF q < p THEN <<>> ELSE SubSeq(s, p, q)

\* fmt.Sscanf(text, "%d", &n) on a run of decimal digits.
RECURSIVE NumVal(_)
NumVal(ds) ==
  IF ds = <<>> THEN 0
  ELSE 10 * NumVal(SubSeq(ds, 1, Len(ds) - 1)) + DigitVal[ds[Len(ds)]]

\* The number of consecutive digits of s starting at p, at most max.
RECURSIVE DigitRun(_, _, _)
DigitRun(s, p, max) ==
  IF max = 0 \/ ~IsDigitAt(s, p) THEN 0 ELSE 1 + DigitRun(s, p + 1, max - 1)

\* The number of consecutive white-space characters of s starting at p.
RECURSIVE SpaceRun(_, _)
SpaceRun(s, p) ==
  IF At(s, p) \in Spaces THEN 1 + SpaceRun(s, p + 1) ELSE 0

\* TrimSpace that removes nothing.
TrimSpace_Not(s) == s

\* strings.TrimSpace
TrimSpace(s) ==
  LET lead == SpaceRun(s, 1)
      nonSpace == {i \in 1..Len(s) : s[i] \notin Spaces}
  IN IF nonSpace = {} THEN <<>>
     ELSE Slice(s, lead + 1, CHOOSE i \in nonSpace : \A j \in nonSpace : j <= i)

UpperCase ==
  {"A", "B", "C", "D", "E", "F", "G", "H", "I", "J", "K", "L", "M",
   "N", "O", "P", "Q", "R", "S", "T", "U", "V", "W", "X", "Y", "Z"}

LowerOf ==
  [c \in UpperCase |->
     CASE c = "A" -> "a" [] c = "B" -> "b" [] c = "C" -> "c" [] c = "D" -> "d"
       [] c = "E" -> "e" [] c = "F" -> "f" [] c = "G" -> "g" [] c = "H" -> "h"
       [] c = "I" -> "i" [] c = "J" -> "j" [] c = "K" -> "k" [] c = "L" -> "l"
       [] c = "M" -> "m" [] c = "N" -> "n" [] c = "O" -> "o" [] c = "P" -> "p"
       [] c = "Q" -> "q" [] c = "R" -> "r" [] c = "S" -> "s" [] c = "T" -> "t"
       [] c = "U" -> "u" [] c = "V" -> "v" [] c = "W" -> "w" [] c = "X" -> "x"
       [] c = "Y" -> "y" [] c = "Z" -> "z"]

\* strings.ToLower
ToLower(s) ==
  [i \in 1..Len(s) |-> IF s[i] \in UpperCase THEN LowerOf[s[i]] ELSE s[i]]

\* sub occurs in s at position p.
OccursAt(s, sub, p) ==
  p >= 1 /\ p + Len(sub) - 1 <= Len(s) /\ SubSeq(s, p, p + Len(sub) - 1) = sub

\* strings.Contains
Contains(s, sub) == \E p \in 1..(Len(s) + 1) : OccursAt(s, sub, p)

\* The least element of a non-empty set of integers.
Least(S) == CHOOSE i \in S : \A j \in S : i <= j

\* ------------------------------------------------------------------------
\* The pre-compiled regular expressions
\* ------------------------------------------------------------------------

\* No match (FindStringSubmatch returned nil).
NoMatch == [ok |-> FALSE]

\* slashRegex.FindStringSubmatch:
\*   ^(\d{1,2})/(\d{1,2})(?:/(\d{2,4}))?(?:\s+(\d{1,2}):(\d{2}))?$
\* m1..m5 are the submatches, empty when their group did not take part.
SlashGroups(s, a, b, hasYear, yl, pt, w, hl) ==
  LET pb == a + 2
      py == pb + b
      ph == pt + w
      pm == ph + hl + 1
      dateOk == a >= 1 /\ At(s, a + 1) = "/" /\ b >= 1 /\ (hasYear => yl >= 2)
      timeOk == w >= 1 /\ hl >= 1 /\ At(s, ph + hl) = ":"
                  /\ DigitRun(s, pm, 2) = 2 /\ pm + 1 = Len(s)
  IN IF dateOk /\ (pt = Len(s) + 1 \/ timeOk)
     THEN [ok |-> TRUE,
           m1 |-> Slice(s, 1, a),
           m2 |-> Slice(s, pb, pb + b - 1),
           m3 |-> IF hasYear THEN Slice(s, py + 1, py + yl) ELSE <<>>,
           m4 |-> IF pt = Len(s) + 1 THEN <<>> ELSE Slice(s, ph, ph + hl - 1),
           m5 |-> IF pt = Len(s) + 1 THEN <<>> ELSE Slice(s, pm, pm + 1)]
     ELSE NoMatch

\* The time part begins at pt: the white space, then the hour's digits.
SlashTimePart(s, a, b, hasYear, yl, pt) ==
  SlashGroups(s, a, b, hasYear, yl, pt, SpaceRun(s, pt),
              DigitRun(s, pt + SpaceRun(s, pt), 2))

\* The year part begins at a + b + 2 when a "/" stands there.
SlashYearPart(s, a, b, hasYear, yl) ==
  SlashTimePart(s, a, b, hasYear, yl,
                IF hasYear THEN a + b + 3 + yl ELSE a + b + 2)

\* The second number follows the first number's a digits and a "/".
SlashSecondPart(s, a, b) ==
  SlashYearPart(s, a, b, At(s, a + b + 2) = "/",
                IF At(s, a + b + 2) = "/" THEN DigitRun(s, a + b + 3, 4) ELSE 0)

SlashFirstPart(s, a) == SlashSecondPart(s, a, DigitRun(s, a + 2, 2))

SlashMatch(s) == SlashFirstPart(s, DigitRun(s, 1, 2))

\* (\d{1,2}):(\d{2}) matches s at position p; the hour takes two digits when
\* it can (greedy).
TimeMatchLen(s, p) ==
  IF IsDigitAt(s, p) /\ IsDigitAt(s, p + 1) /\ At(s, p + 2) = ":"
       /\ DigitRun(s, p + 3, 2) = 2 THEN 2
  ELSE IF IsDigitAt(s, p) /\ At(s, p + 1) = ":" /\ DigitRun(s, p + 2, 2) = 2 THEN 1
  ELSE 0

\* timeRegex.FindStringSubmatch: the leftmost match of (\d{1,2}):(\d{2}).
TimeGroups(s, p, hl) ==
  [ok |-> TRUE,
   m1 |-> Slice(s, p, p + hl - 1),
   m2 |-> Slice(s, p + hl + 1, p + hl + 2)]

TimeMatchAmong(s, at) ==
  IF at = {} THEN NoMatch
  ELSE TimeGroups(s, Least(at), TimeMatchLen(s, Least(at)))

TimeMatch(s) == TimeMatchAmong(s, {p \in 1..Len(s) : TimeMatchLen(s, p) > 0})

InSp == <<"i", "n", " ">>
SpDay == <<" ", "d", "a", "y">>

\* The number of digits of the match of `in (\d+) day` at position p of s,
\* 0 when there is none.
DaysMatchLen(s, p) ==
  LET n == DigitRun(s, p + 3, Len(s))
  IN IF OccursAt(s, InSp, p) /\ n >= 1 /\ OccursAt(s, SpDay, p + 3 + n)
     THEN n ELSE 0

\* daysRegex.FindStringSubmatch: the leftmost match of `in (\d+) days?`.
DaysMatchAmong(s, at) ==
  IF at = {} THEN NoMatch
  ELSE [ok |-> TRUE,
        m1 |-> Slice(s, Least(at) + 3, Least(at) + 2 + DaysMatchLen(s, Least(at)))]

DaysMatch(s) == DaysMatchAmong(s, {p \in 1..Len(s) : DaysMatchLen(s, p) > 0})

\* ------------------------------------------------------------------------
\* time.Parse / time.ParseInLocation for the layouts the handlers use
\* ------------------------------------------------------------------------

\* A layout is a sequence of elements: the reference-time fields "2006",
\* "01", "02", "15", "04", "05", ".999999999", "Z07:00", and literal
\* characters.
LayoutRFC3339 ==
  <<"2006", "-", "01", "-", "02", "T", "15", ":", "04", ":", "05", "Z07:00">>
LayoutRFC3339Nano ==
  <<"2006", "-", "01", "-", "02", "T", "15", ":", "04", ":", "05",
    ".999999999", "Z07:00">>
LayoutISO8601 ==
  <<"2006", "-", "01", "-", "02", "T", "15", ":", "04", ":", "05">>
LayoutISO8601WithTZ ==
  <<"2006", "-", "01", "-", "02", "T", "15", ":", "04", ":", "05", "Z">>
LayoutISO8601Short == <<"2006", "-", "01", "-", "02", "T", "15", ":", "04">>
LayoutDateTimeSpace ==
  <<"2006", "-", "01", "-", "02", " ", "15", ":", "04", ":", "05">>
LayoutDateTimeSpaceShort ==
  <<"2006", "-", "01", "-", "02", " ", "15", ":", "04">>
LayoutDateOnly == <<"2006", "-", "01", "-", "02">>
LayoutGermanDateTime ==
  <<"02", ".", "01", ".", "2006", " ", "15", ":", "04">>
LayoutGermanDate == <<"02", ".", "01", ".", "2006">>

\* The fields before anything is parsed: time.Parse's defaults.
ParseStart ==
  [ok |-> TRUE, pos |-> 1, year |-> 0, month |-> 1, day |-> 1, hour |-> 0,
   min |-> 0, sec |-> 0, nsec |-> 0, hasZone |-> FALSE, zoff |-> 0]

ParseBad(st) == [st EXCEPT !.ok = FALSE]

\* 10^k for k in 0..9.
RECURSIVE Pow10(_)
Pow10(k) == IF k = 0 THEN 1 ELSE 10 * Pow10(k - 1)

\* A fraction of a second written after the separator at position p of s
\* (n digits, n >= 1), in nanoseconds; digits past the ninth are dropped.
FracNanos(s, p, n) ==
  LET k == IF n > 9 THEN 9 ELSE n
  IN NumVal(Slice(s, p + 1, p + k)) * Pow10(9 - k)

\* One layout element e applied to s at st.pos; nextIsFrac tells whether
\* the layout's next element is the fractional second.
ParseElem(e, s, st, nextIsFrac) ==
  LET p == st.pos
      two == DigitRun(s, p, 2)
      num2 == NumVal(Slice(s, p, p + 1))
  IN
  CASE e = "2006" ->
         IF DigitRun(s, p, 4) = 4
         THEN [st EXCEPT !.year = NumVal(Slice(s, p, p + 3)), !.pos = p + 4]
         ELSE ParseBad(st)
    [] e = "01" ->
         IF two = 2 /\ num2 >= 1 /\ num2 <= 12
         THEN [st EXCEPT !.month = num2, !.pos = p + 2] ELSE ParseBad(st)
    [] e = "02" ->
         IF two = 2 THEN [st EXCEPT !.day = num2, !.pos = p + 2]
         ELSE ParseBad(st)
    [] e = "15" ->
         IF two >= 1 /\ NumVal(Slice(s, p, p + two - 1)) < 24
         THEN [st EXCEPT !.hour = NumVal(Slice(s, p, p + two - 1)),
                         !.pos = p + two]
         ELSE ParseBad(st)
    [] e = "04" ->
         IF two = 2 /\ num2 < 60
         THEN [st EXCEPT !.min = num2, !.pos = p + 2] ELSE ParseBad(st)
    [] e = "05" ->
         IF two = 2 /\ num2 < 60
         THEN LET q == p + 2
                  n == DigitRun(s, q + 1, Len(s))
              IN IF ~nextIsFrac /\ At(s, q) \in {".", ","} /\ n >= 1
                 THEN [st EXCEPT !.sec = num2, !.nsec = FracNanos(s, q, n),
                                 !.pos = q + 1 + n]
                 ELSE [st EXCEPT !.sec = num2, !.pos = q]
         ELSE ParseBad(st)
    [] e = ".999999999" ->
         LET n == DigitRun(s, p + 1, Len(s))
         IN IF At(s, p) \in {".", ","} /\ n >= 1
            THEN [st EXCEPT !.nsec = FracNanos(s, p, n), !.pos = p + 1 + n]
            ELSE st
    [] e = "Z07:00" ->
         IF At(s, p) = "Z"
         THEN [st EXCEPT !.hasZone = TRUE, !.zoff = 0, !.pos = p + 1]
         ELSE IF At(s, p) \in {"+", "-"} /\ DigitRun(s, p + 1, 2) = 2
                   /\ At(s, p + 3) = ":" /\ DigitRun(s, p + 4, 2) = 2
              THEN LET hh == NumVal(Slice(s, p + 1, p + 2))
                       mm == NumVal(Slice(s, p + 4, p + 5))
                       off == (hh * 60 + mm) * SecondsPerMinute
                   IN IF hh > 24 \/ mm > 60 THEN ParseBad(st)
                      ELSE [st EXCEPT !.hasZone = TRUE,
                                      !.zoff = IF At(s, p) = "-" THEN -off ELSE off,
                                      !.pos = p + 6]
              ELSE ParseBad(st)
    [] OTHER ->
         IF At(s, p) = e THEN [st EXCEPT !.pos = p + 1] ELSE ParseBad(st)

\* The layout's elements from the k-th on applied in turn.
RECURSIVE ParseFrom(_, _, _, _)
ParseFrom(layout, k, s, st) ==
  IF ~st.ok \/ k > Len(layout) THEN st
  ELSE ParseFrom(layout, k + 1, s,
         ParseElem(layout[k], s, st,
                   k < Len(layout) /\ layout[k + 1] = ".999999999"))

\* time.Parse failed.
ParseError == [ok |-> FALSE]

\* time.ParseInLocation(layout, s, loc): every element must match, nothing
\* may follow, and the day must exist in its month.  A value that carries
\* its offset is that instant; one that does not is wall time in loc.
\* WrittenAtOffset reading the fields as UTC whatever offset is written.
WrittenAtOffset_Ignored(u, zoff) == [t |-> u.t, ns |-> u.ns, loc |-> "UTC"]

\* The instant of fields written at offset zoff, u being the same fields
\* read in UTC.
WrittenAtOffset(u, zoff) == [t |-> u.t - zoff, ns |-> u.ns, loc |-> "UTC"]

ParsedTime(st, s, loc) ==
  IF ~st.ok \/ st.pos # Len(s) + 1 THEN ParseError
  ELSE IF st.day < 1 \/ st.day > DaysIn(st.month, st.year) THEN ParseError
  ELSE IF st.hasZone
  THEN [ok |-> TRUE,
        time |-> WrittenAtOffset(GoDate(st.year, st.month, st.day, st.hour,
                                        st.min, st.sec, st.nsec, "UTC"),
                                 st.zoff)]
  ELSE [ok |-> TRUE,
        time |-> GoDate(st.year, st.month, st.day, st.hour, st.min, st.sec,
                        st.nsec, loc)]

ParseInLocation(layout, s, loc) ==
  ParsedTime(ParseFrom(layout, 1, s, ParseStart), s, loc)

\* time.Parse(layout, s): ParseInLocation in UTC.
Parse(layout, s) == ParseInLocation(layout, s, "UTC")

\* ------------------------------------------------------------------------
\* Formatting
\* ------------------------------------------------------------------------

DigitChar == <<"0", "1", "2", "3", "4", "5", "6", "7", "8", "9">>

\* n >= 0 written in decimal with at least w digits (zero padded).
RECURSIVE Pad(_, _)
Pad(n, w) ==
  IF n < 10 /\ w <= 1 THEN <<DigitChar[n + 1]>>
  ELSE Append(Pad(n \div 10, w - 1), DigitChar[(n % 10) + 1])

\* ZoneText that writes Z whatever the offset.
ZoneText_Zulu(off) == <<"Z">>

\* t.Format(time.RFC3339): "2006-01-02T15:04:05Z07:00" in t's location;
\* the fraction of a second is not written.
ZoneText(off) ==
  IF off = 0 THEN <<"Z">>
  ELSE IF off < 0
  THEN <<"-">> \o Pad((-off) \div SecondsPerHour, 2) \o <<":">>
         \o Pad(((-off) % SecondsPerHour) \div SecondsPerMinute, 2)
  ELSE <<"+">> \o Pad(off \div SecondsPerHour, 2) \o <<":">>
         \o Pad((off % SecondsPerHour) \div SecondsPerMinute, 2)

RFC3339Text(c, off) ==
  Pad(c.year, 4) \o <<"-">> \o Pad(c.month, 2) \o <<"-">> \o Pad(c.day, 2)
    \o <<"T">> \o Pad(c.hour, 2) \o <<":">> \o Pad(c.minute, 2)
    \o <<":">> \o Pad(c.second, 2) \o ZoneText(off)

FormatRFC3339(tm) == RFC3339Text(Civil(tm), ZoneOffset(tm.loc, tm.t))

\* t.Format("Monday, January 2, 2006 at 15:04"): the fields the text shows,
\* in t's location.
LongFields(c) ==
  [weekday |-> c.weekday, month |-> c.month, day |-> c.day,
   year |-> c.year, hour |-> c.hour, minute |-> c.minute]

FormatLong(tm) == LongFields(Civil(tm))

\* ------------------------------------------------------------------------
\* The resolver
\* ------------------------------------------------------------------------

\* The three outcomes of a parse: (time, nil), (zero, *AmbiguousDateError)
\* and (zero, error).
Instant(tm) == [kind |-> "instant", time |-> tm]
Failure(reason) == [kind |-> "failure", reason |-> reason]
Ambiguous(original, options) ==
  [kind |-> "ambiguous", originalInput |-> original, options |-> options]

\* A DateOption; DisplayText is the label followed by the long rendering.
DateOption(key, label, tm) ==
  [key |-> key, label |-> label, shown |-> FormatLong(tm),
   isoDate |-> FormatRFC3339(tm), dateTime |-> tm]

\* The two ranges parseSlashFormat tests.
IsValidMonth(n) == n >= 1 /\ n <= 12
IsValidDay(n) == n >= 1 /\ n <= 31

\* IsAmbiguous without the test first != second.
IsAmbiguous_EqualToo(first, second) ==
  IsValidMonth(first) /\ IsValidMonth(second) /\ IsValidDay(first)
    /\ IsValidDay(second)

\* IsAmbiguous testing only that both numbers can be days.
IsAmbiguous_DaysOnly(first, second) ==
  IsValidDay(first) /\ IsValidDay(second) /\ first # second

\* if firstIsValidMonth && secondIsValidMonth && firstIsValidDay &&
\*    secondIsValidDay && first != second
IsAmbiguous(first, second) ==
  IsValidMonth(first) /\ IsValidMonth(second) /\ IsValidDay(first)
    /\ IsValidDay(second) /\ first # second

\* The ambiguous result: option A is MM/DD, option B is DD/MM.
AmbiguousOptions(first, second, year, hour, minute, tz) ==
  LET optionMM == GoDate(year, first, second, hour, minute, 0, 0, tz)
      optionDD == GoDate(year, second, first, hour, minute, 0, 0, tz)
  IN <<DateOption("A", "MM/DD format", optionMM),
       DateOption("B", "DD/MM format", optionDD)>>

\* SingleReading passing month and day to time.Date the wrong way round in
\* its DD/MM branch.
SingleReading_Swapped(first, second, year, hour, minute, tz) ==
  IF IsValidMonth(second) /\ IsValidDay(first)
  THEN Instant(GoDate(year, first, second, hour, minute, 0, 0, tz))
  ELSE IF IsValidMonth(first) /\ IsValidDay(second)
  THEN Instant(GoDate(year, first, second, hour, minute, 0, 0, tz))
  ELSE Failure("invalid date components")

\* The reading of an unambiguous pair: DD/MM is preferred, MM/DD second.
SingleReading(first, second, year, hour, minute, tz) ==
  IF IsValidMonth(second) /\ IsValidDay(first)
  THEN Instant(GoDate(year, second, first, hour, minute, 0, 0, tz))
  ELSE IF IsValidMonth(first) /\ IsValidDay(second)
  THEN Instant(GoDate(year, first, second, hour, minute, 0, 0, tz))
  ELSE Failure("invalid date components")

\* SlashYear with the default year taken from the reference as seen in Berlin.
SlashYear_InBerlin(m3, ref) ==
  IF m3 = <<>> THEN Civil(In(ref, "Berlin")).year
  ELSE IF NumVal(m3) < 100 THEN NumVal(m3) + 2000 ELSE NumVal(m3)

\* SlashYear that takes the reference's year whatever the text writes.
SlashYear_Unwritten(m3, ref) == Civil(ref).year

\* The year of a slash date: the reference's year (in the reference's own
\* location) unless written; a written year below 100 is in the 2000s.
SlashYear(m3, ref) ==
  IF m3 = <<>> THEN Civil(ref).year
  ELSE IF NumVal(m3) < 100 THEN NumVal(m3) + 2000 ELSE NumVal(m3)

\* TimeInRange without the check of the minute.
TimeInRange_HourOnly(hour, minute) == ~(hour < 0 \/ hour > 23)

\* if hour < 0 || hour > 23 || minute < 0 || minute > 59
TimeInRange(hour, minute) ==
  ~(hour < 0 \/ hour > 23 \/ minute < 0 \/ minute > 59)

\* parseSlashFormat(input, tz, ref)
SlashDate(input, first, second, year, hour, minute, tz) ==
  IF ~TimeInRange(hour, minute) THEN Failure("invalid time component")
  ELSE IF IsAmbiguous(first, second)
  THEN Ambiguous(input, AmbiguousOptions(first, second, year, hour, minute, tz))
  ELSE SingleReading(first, second, year, hour, minute, tz)

SlashResult(input, tz, ref, matches) ==
  IF ~matches.ok THEN Failure("not a slash format")
  ELSE SlashDate(input, NumVal(matches.m1), NumVal(matches.m2),
                 SlashYear(matches.m3, ref),
                 IF matches.m4 # <<>> THEN NumVal(matches.m4) ELSE 9,
                 IF matches.m4 # <<>> THEN NumVal(matches.m5) ELSE 0, tz)

parseSlashFormat(input, tz, ref) == SlashResult(input, tz, ref, SlashMatch(input))

\* The literal texts parseRelativeDate looks for.
K_morning == <<"m", "o", "r", "n", "i", "n", "g">>
K_noon == <<"n", "o", "o", "n">>
K_midday == <<"m", "i", "d", "d", "a", "y">>
K_afternoon == <<"a", "f", "t", "e", "r", "n", "o", "o", "n">>
K_evening == <<"e", "v", "e", "n", "i", "n", "g">>
K_today == <<"t", "o", "d", "a", "y">>
K_tomorrow == <<"t", "o", "m", "o", "r", "r", "o", "w">>
K_next_week == <<"n", "e", "x", "t", " ", "w", "e", "e", "k">>
K_next_monday == <<"n", "e", "x", "t", " ", "m", "o", "n", "d", "a", "y">>
K_next_tuesday ==
  <<"n", "e", "x", "t", " ", "t", "u", "e", "s", "d", "a",
    "y">>
K_next_wednesday ==
  <<"n", "e", "x", "t", " ", "w", "e", "d", "n", "e", "s",
    "d", "a", "y">>
K_next_thursday ==
  <<"n", "e", "x", "t", " ", "t", "h", "u", "r", "s", "d",
    "a", "y">>
K_next_friday == <<"n", "e", "x", "t", " ", "f", "r", "i", "d", "a", "y">>
K_next_saturday ==
  <<"n", "e", "x", "t", " ", "s", "a", "t", "u", "r", "d",
    "a", "y">>
K_next_sunday == <<"n", "e", "x", "t", " ", "s", "u", "n", "d", "a", "y">>

\* The hour of the day-part keyword in the text: "noon" is looked for before
\* "afternoon", so a text holding "afternoon" holds "noon" first.
DayPartHour(input) ==
  IF Contains(input, K_morning) THEN 9
  ELSE IF Contains(input, K_noon) \/ Contains(input, K_midday) THEN 12
  ELSE IF Contains(input, K_afternoon) THEN 14
  ELSE IF Contains(input, K_evening) THEN 18
  ELSE 9

\* The time of day of a relative expression: an HH:MM in the text, else the
\* day-part keyword's hour, else 09:00.
TimeOfDay(matches, input) ==
  IF matches.ok
  THEN [hour |-> NumVal(matches.m1), minute |-> NumVal(matches.m2)]
  ELSE [hour |-> DayPartHour(input), minute |-> 0]

RelativeTime(input) == TimeOfDay(TimeMatch(input), input)

\* nextWeekday adding a week only when the target day is behind.
OnDayOf(c, add, hour, minute, tz) ==
  GoDate(c.year, c.month, c.day + add, hour, minute, 0, 0, tz)

nextWeekday_SameDay(ref, targetDay, hour, minute, tz) ==
  OnDayOf(Civil(ref),
          IF targetDay - Civil(ref).weekday < 0
          THEN targetDay - Civil(ref).weekday + 7
          ELSE targetDay - Civil(ref).weekday,
          hour, minute, tz)

\* nextWeekday(ref, targetDay, hour, minute, tz)
nextWeekday(ref, targetDay, hour, minute, tz) ==
  OnDayOf(Civil(ref),
          IF targetDay - Civil(ref).weekday <= 0
          THEN targetDay - Civil(ref).weekday + 7
          ELSE targetDay - Civil(ref).weekday,
          hour, minute, tz)

\* The seven `case strings.Contains(input, "next <weekday>")` in order.
WeekdayPhrases ==
  <<[text |-> K_next_monday, day |-> Monday],
    [text |-> K_next_tuesday, day |-> Tuesday],
    [text |-> K_next_wednesday, day |-> Wednesday],
    [text |-> K_next_thursday, day |-> Thursday],
    [text |-> K_next_friday, day |-> Friday],
    [text |-> K_next_saturday, day |-> Saturday],
    [text |-> K_next_sunday, day |-> Sunday]>>

\* RelativeNow leaving the reference time in its own location.
RelativeNow_OwnZone(ref, tz) == ref

\* now := ref.In(tz)
RelativeNow(ref, tz) == In(ref, tz)

\* RelativeOn looking for "tomorrow" before "today".
RelativeOn_TomorrowFirst(input, now, c, tod, days, named, tz) ==
  IF Contains(input, K_tomorrow)
  THEN Instant(OnDayOf(c, 1, tod.hour, tod.minute, tz))
  ELSE IF Contains(input, K_today)
  THEN Instant(OnDayOf(c, 0, tod.hour, tod.minute, tz))
  ELSE IF Contains(input, K_next_week)
  THEN Instant(OnDayOf(c, 7, tod.hour, tod.minute, tz))
  ELSE IF days.ok
  THEN Instant(OnDayOf(c, NumVal(days.m1), tod.hour, tod.minute, tz))
  ELSE IF named # {}
  THEN Instant(nextWeekday(now, WeekdayPhrases[Least(named)].day,
                           tod.hour, tod.minute, tz))
  ELSE Failure("unrecognized relative date expression")

\* parseRelativeDate(input, ref, tz)
RelativeOn(input, now, c, tod, days, named, tz) ==
  IF Contains(input, K_today)
  THEN Instant(OnDayOf(c, 0, tod.hour, tod.minute, tz))
  ELSE IF Contains(input, K_tomorrow)
  THEN Instant(OnDayOf(c, 1, tod.hour, tod.minute, tz))
  ELSE IF Contains(input, K_next_week)
  THEN Instant(OnDayOf(c, 7, tod.hour, tod.minute, tz))
  ELSE IF days.ok
  THEN Instant(OnDayOf(c, NumVal(days.m1), tod.hour, tod.minute, tz))
  ELSE IF named # {}
  THEN Instant(nextWeekday(now, WeekdayPhrases[Least(named)].day,
                           tod.hour, tod.minute, tz))
  ELSE Failure("unrecognized relative date expression")

RelativeAt(input, now, tz) ==
  RelativeOn(input, now, Civil(now), RelativeTime(input), DaysMatch(input),
             {i \in 1..Len(WeekdayPhrases) : Contains(input, WeekdayPhrases[i].text)},
             tz)

parseRelativeDate(input0, ref, tz) ==
  RelativeAt(ToLower(TrimSpace(input0)), RelativeNow(ref, tz), tz)

\* time.LoadLocation("Europe/Berlin"), with the fallback to UTC when the
\* zone database cannot be loaded.
BerlinTZ(tzLoaded) == IF tzLoaded THEN "Berlin" ELSE "UTC"

\* The local layouts tried in order by the `for _, format := range formats`.
LocalLayouts ==
  <<LayoutISO8601WithTZ, LayoutISO8601, LayoutISO8601Short,
    LayoutDateTimeSpace, LayoutDateTimeSpaceShort>>

\* The first of the local layouts that parses s, 0 when none does.
FirstLocalLayout(s, tz) ==
  LET fit == {i \in 1..Len(LocalLayouts) : ParseInLocation(LocalLayouts[i], s, tz).ok}
  IN IF fit = {} THEN 0 ELSE Least(fit)

\* AtNine without the default time.
AtNine_Midnight(tm, tz) == OnDayOf(Civil(tm), 0, 0, 0, tz)

\* The date of tm at 09:00 in tz:
\* time.Date(t.Year(), t.Month(), t.Day(), 9, 0, 0, 0, berlinTZ)
AtNine(tm, tz) == OnDayOf(Civil(tm), 0, 9, 0, tz)

\* ResolveFrom with the local layouts tried before the RFC 3339 layouts.
ResolveFrom_LocalFirst(input, berlinTZ, rfc, nano, k, dateOnly, german, germanDate, slashDate, relative) ==
  IF input = <<>> THEN Failure("empty datetime string")
  ELSE IF k # 0 THEN Instant(ParseInLocation(LocalLayouts[k], input, berlinTZ).time)
  ELSE IF rfc.ok THEN Instant(In(rfc.time, berlinTZ))
  ELSE IF nano.ok THEN Instant(In(nano.time, berlinTZ))
  ELSE IF dateOnly.ok THEN Instant(AtNine(dateOnly.time, berlinTZ))
  ELSE IF german.ok THEN Instant(german.time)
  ELSE IF germanDate.ok THEN Instant(AtNine(germanDate.time, berlinTZ))
  ELSE IF slashDate.kind \in {"instant", "ambiguous"} THEN slashDate
  ELSE IF relative.kind = "instant" THEN relative
  ELSE Failure("unable to parse datetime")

\* ParseDateTimeRobust(input, referenceTime) where the zone database is
\* loaded (tzLoaded) or not.
ResolveFrom(input, berlinTZ, rfc, nano, k, dateOnly, german, germanDate, slashDate, relative) ==
  IF input = <<>> THEN Failure("empty datetime string")
  ELSE IF rfc.ok THEN Instant(In(rfc.time, berlinTZ))
  ELSE IF nano.ok THEN Instant(In(nano.time, berlinTZ))
  ELSE IF k # 0 THEN Instant(ParseInLocation(LocalLayouts[k], input, berlinTZ).time)
  ELSE IF dateOnly.ok THEN Instant(AtNine(dateOnly.time, berlinTZ))
  ELSE IF german.ok THEN Instant(german.time)
  ELSE IF germanDate.ok THEN Instant(AtNine(germanDate.time, berlinTZ))
  ELSE IF slashDate.kind \in {"instant", "ambiguous"} THEN slashDate
  ELSE IF relative.kind = "instant" THEN relative
  ELSE Failure("unable to parse datetime")

ResolveIn(input, referenceTime, berlinTZ) ==
  ResolveFrom(input, berlinTZ,
              Parse(LayoutRFC3339, input),
              Parse(LayoutRFC3339Nano, input),
              FirstLocalLayout(input, berlinTZ),
              ParseInLocation(LayoutDateOnly, input, berlinTZ),
              ParseInLocation(LayoutGermanDateTime, input, berlinTZ),
              ParseInLocation(LayoutGermanDate, input, berlinTZ),
              parseSlashFormat(input, berlinTZ, referenceTime),
              parseRelativeDate(input, referenceTime, berlinTZ))

ParseDateTimeRobust(input0, referenceTime, tzLoaded) ==
  ResolveIn(TrimSpace(input0), referenceTime, BerlinTZ(tzLoaded))

\* t.Before(u), t.After(u)
Before(a, b) == a.t < b.t \/ (a.t = b.t /\ a.ns < b.ns)
After(a, b) == Before(b, a)

\* t.Add(d) for a whole number of seconds d.
AddSeconds(tm, d) == [tm EXCEPT !.t = tm.t + d]

\* t.AddDate(years, months, days): the civil fields of t in its location with
\* the three numbers added, normalised as time.Date normalises them.
AddDateTo(c, years, months, days, nsec, loc) ==
  GoDate(c.year + years, c.month + months, c.day + days, c.hour, c.minute,
         c.second, nsec, loc)

AddDate(tm, years, months, days) ==
  AddDateTo(Civil(tm), years, months, days, tm.ns, tm.loc)

\* The grace window and the horizon of ValidateDateTime.
PastGraceHours == 24
MaxYearsAhead == 2

\* ValidateDateTime with the lower bound itself rejected.
ValidateDateTime_BoundRejected(tm, now) ==
  IF ~After(tm, AddSeconds(now, -(PastGraceHours * SecondsPerHour)))
  THEN "datetime is in the past"
  ELSE IF After(tm, AddDate(now, MaxYearsAhead, 0, 0))
  THEN "datetime is too far in the future"
  ELSE "ok"

\* ValidateDateTime(t) when time.Now() returns now: "ok" for nil, else the
\* error.
ValidateDateTime(tm, now) ==
  IF Before(tm, AddSeconds(now, -(PastGraceHours * SecondsPerHour)))
  THEN "datetime is in the past"
  ELSE IF After(tm, AddDate(now, MaxYearsAhead, 0, 0))
  THEN "datetime is too far in the future"
  ELSE "ok"

\* ------------------------------------------------------------------------
\* Inputs
\* ------------------------------------------------------------------------

\* Largest first/second number of the slash dates written out in full
\* (the day numbers near the month ends and 99 are added to them).
MaxNum == 13
\* Largest N of "in N days".
MaxDays == 3
\* Reference times run over this many consecutive days (every weekday).
MaxRefDay == 6

Absent == -1

\* <<hour, minute>> written in a text, <<Absent, Absent>> for none.
NoTime == <<Absent, Absent>>

WrittenTime(tod) ==
  IF tod = NoTime THEN <<>>
  ELSE Pad(tod[1], 2) \o <<":">> \o Pad(tod[2], 2)

\* A slash date as written: N1/N2[/year][ HH:MM]; numbers below 10 take a
\* leading zero when pad, a year below 100 is written with two digits.
RenderSlash(g) ==
  LET w == IF g.pad THEN 2 ELSE 1
  IN Pad(g.n1, w) \o <<"/">> \o Pad(g.n2, w)
       \o (IF g.year = Absent THEN <<>>
           ELSE <<"/">> \o Pad(g.year, IF g.year < 100 THEN 2 ELSE 4))
       \o (IF g.time = NoTime THEN <<>> ELSE <<" ">> \o WrittenTime(g.time))

\* A relative expression as written: the phrase, the day-part keyword and
\* "at HH:MM", each but the phrase optional.
RenderRelative(g) ==
  g.phrase \o (IF g.part = <<>> THEN <<>> ELSE <<" ">> \o g.part)
    \o (IF g.time = NoTime THEN <<>>
        ELSE <<" ", "a", "t", " ">> \o WrittenTime(g.time))

\* YYYY-MM-DD
RenderDateOnly(g) ==
  Pad(g.year, 4) \o <<"-">> \o Pad(g.month, 2) \o <<"-">> \o Pad(g.day, 2)

\* DD.MM.YYYY[ HH:MM]
RenderDotted(g) ==
  Pad(g.day, 2) \o <<".">> \o Pad(g.month, 2) \o <<".">> \o Pad(g.year, 4)
    \o (IF g.time = NoTime THEN <<>> ELSE <<" ">> \o WrittenTime(g.time))

\* HH:MM[:SS], the seconds written unless Absent.
WrittenClock(g) ==
  Pad(g.hour, 2) \o <<":">> \o Pad(g.minute, 2)
    \o (IF g.second = Absent THEN <<>> ELSE <<":">> \o Pad(g.second, 2))

\* The UTC offset as written: "Z" when zulu, else +HH:MM or -HH:MM.
WrittenOffset(g) ==
  IF g.zulu THEN <<"Z">>
  ELSE <<IF g.off < 0 THEN "-" ELSE "+">>
         \o Pad((IF g.off < 0 THEN -g.off ELSE g.off) \div SecondsPerHour, 2)
         \o <<":">>
         \o Pad(((IF g.off < 0 THEN -g.off ELSE g.off) % SecondsPerHour)
                  \div SecondsPerMinute, 2)

\* YYYY-MM-DDTHH:MM:SS[.f](Z|+HH:MM|-HH:MM); tenths is the one digit of the
\* fraction, Absent for none.
RenderOffset(g) ==
  RenderDateOnly(g) \o <<"T">> \o WrittenClock(g)
    \o (IF g.tenths = Absent THEN <<>> ELSE <<".">> \o Pad(g.tenths, 1))
    \o WrittenOffset(g)

\* YYYY-MM-DD, "T" or a space, HH:MM[:SS]
RenderLocal(g) == RenderDateOnly(g) \o <<g.sep>> \o WrittenClock(g)

Render(g) ==
  CASE g.form = "slash" -> RenderSlash(g)
    [] g.form = "relative" -> RenderRelative(g)
    [] g.form = "dateonly" -> RenderDateOnly(g)
    [] g.form = "dotted" -> RenderDotted(g)
    [] g.form = "offset" -> RenderOffset(g)
    [] g.form = "local" -> RenderLocal(g)
    [] g.form = "text" -> g.text
    [] g.form = "pair" -> g.first.text \o <<",", " ", "n", "o", "t", " ">> \o g.second.text

SlashNums == (0..MaxNum) \cup {25, 29, 30, 31, 32, 99}
SlashYears == {Absent, 24, 2023, 2024}
SlashTimes == {NoTime, <<14, 30>>, <<25, 0>>, <<10, 75>>}

SlashGiven ==
  [form : {"slash"}, n1 : SlashNums, n2 : SlashNums, pad : {TRUE},
   year : SlashYears, time : SlashTimes]
    \cup [form : {"slash"}, n1 : 0..9, n2 : {6, 12, 31}, pad : {FALSE},
          year : {Absent, 2024}, time : {NoTime, <<2, 30>>}]

\* The slash dates among the inputs of every form.
SlashSample ==
  {g \in SlashGiven : g.year \in {Absent, 2024} /\ g.time \in {NoTime, <<14, 30>>}}

InDays(n) == <<"i", "n", " ">> \o Pad(n, 1) \o <<" ", "d", "a", "y", "s">>

\* phrase, days the phrase adds (Absent for a weekday phrase), weekday.
RelativePhrases ==
  {[text |-> K_today, add |-> 0, day |-> Absent],
   [text |-> K_tomorrow, add |-> 1, day |-> Absent],
   [text |-> K_next_week, add |-> 7, day |-> Absent]}
    \cup {[text |-> InDays(n), add |-> n, day |-> Absent] : n \in 0..MaxDays}
    \cup {[text |-> WeekdayPhrases[i].text, add |-> Absent,
           day |-> WeekdayPhrases[i].day] : i \in 1..Len(WeekdayPhrases)}

DayParts == {<<>>, K_morning, K_noon, K_midday, K_afternoon, K_evening}
RelativeTimes == {NoTime, <<14, 30>>, <<2, 30>>, <<0, 0>>, <<25, 99>>}

RelativeGiven ==
  {[form |-> "relative", phrase |-> p.text, add |-> p.add, day |-> p.day,
    part |-> k, time |-> t] :
     p \in RelativePhrases, k \in DayParts, t \in RelativeTimes}

\* Two phrases in one text, in either order: "tomorrow, not today".
PairGiven == [form : {"pair"}, first : RelativePhrases, second : RelativePhrases]

DateOnlyGiven ==
  [form : {"dateonly"}, year : {2023, 2024}, month : {2, 3, 12},
   day : {1, 6, 29, 30, 31}]

DottedGiven ==
  [form : {"dotted"}, year : {2023, 2024}, month : {2, 3, 12},
   day : {1, 6, 29, 30, 31}, time : {NoTime, <<14, 30>>}]

\* Timestamps that carry their offset: in winter and in summer, at the ends
\* of the day, on days that do not exist, written with Z or with an offset
\* east or west of Greenwich.
OffsetGiven ==
  {g \in [form : {"offset"}, year : {2024}, month : {2, 7, 12}, day : {1, 30, 31},
          hour : {0, 9, 14, 23}, minute : {0, 30}, second : {0, 59},
          tenths : {Absent, 5}, zulu : BOOLEAN,
          off : {0, 3600, 7200, -18000, 19800}] :
     g.zulu => g.off = 0}

\* Timestamps without offset: on ordinary days, on days that do not exist,
\* and on the nights the clocks change in Berlin (2024-03-31, 2024-10-27).
LocalGiven ==
  [form : {"local"}, sep : {"T", " "}, year : {2024}, month : {2, 3, 10, 12},
   day : {15, 27, 30, 31}, hour : {2, 9, 18}, minute : {0, 30},
   second : {Absent, 0, 45}]

\* Texts no matcher is written for.
OtherTexts ==
  {<<>>, <<" ">>, <<" ", "\t", " ">>,
   <<"n", "o", "t", "-", "a", "-", "d", "a", "t", "e">>,
   <<" ", "2", "0", "2", "4">>,
   <<" ", "0", "6", "/", "1", "2", " ">>}

TextGiven == [form : {"text"}, text : OtherTexts]

\* A civil time of a location as a time.Time.
TimeAt(year, month, day, hour, min, loc) ==
  GoDate(year, month, day, hour, min, 0, 0, loc)

\* Reference times: 2024-11-30 (a Saturday) and the days after it, the last
\* day of the year, the eve of a leap day and the days before the clocks
\* change; in the morning and late in the evening (already the next day in
\* Berlin); held in UTC or in Tokyo.
RefDays ==
  {DaysFromCivil(2024, 11, 30) + k : k \in 0..MaxRefDay}
    \cup {DaysFromCivil(2024, 12, 31), DaysFromCivil(2024, 2, 28),
          DaysFromCivil(2024, 3, 30), DaysFromCivil(2024, 10, 26)}

RefAt(d, h, l) ==
  [t |-> d * SecondsPerDay + h * SecondsPerHour + 30 * SecondsPerMinute,
   ns |-> 0, loc |-> l]

RefTimes == {RefAt(d, h, l) : d \in RefDays, h \in {10, 23}, l \in {"UTC", "Tokyo"}}

\* The reference times that differ in their year: 2024 everywhere, 2024 in
\* UTC but 2025 in Berlin, and 2025 in its own zone only.
YearRefTimes ==
  {RefAt(DaysFromCivil(2024, 11, 30), 10, "UTC"),
   RefAt(DaysFromCivil(2024, 12, 31), 23, "UTC"),
   RefAt(DaysFromCivil(2024, 12, 31), 15, "Tokyo")}

\* ------------------------------------------------------------------------
\* State
\* ------------------------------------------------------------------------

VARIABLES
  tzLoaded,   \* whether time.LoadLocation("Europe/Berlin") succeeds
  given,      \* what the caller's text or instant was made from
  input,      \* the text passed to ParseDateTimeRobust
  ref,        \* referenceTime
  outcome,    \* what ParseDateTimeRobust returned, kind "none" before
  calls,      \* the frames of the ParseDateTimeRobust calls issued so far
  now,        \* time.Now() as ValidateDateTime reads it
  cand,       \* the instant passed to ValidateDateTime or to the formatter
  verdict,    \* what ValidateDateTime returned, "none" before
  clock,      \* the wall clock while the handler serves requests
  context,    \* Handler.context
  encounters, \* the rows of the encounters table
  handed,     \* for each row: the text it was requested with and when
  reply,      \* what the last handler call returned
  message,    \* what ToUserMessage returned, <<>> before
  shown,      \* what FormatDateTimeForDisplay returned, kind "none" before
  pending     \* the pending date confirmation of the context, if any

resolverVars == <<tzLoaded, given, input, ref, outcome, calls>>
validatorVars == <<now, cand, verdict>>
handlerVars == <<clock, context, encounters, handed, reply>>
callerVars == <<message, shown, pending>>
vars == <<resolverVars, validatorVars, handlerVars, callerVars>>

NoOutcome == [kind |-> "none"]
Epoch == [t |-> 0, ns |-> 0, loc |-> "UTC"]
NoContext == [PatientID |-> "", PractitionerID |-> ""]

ResolverIdle ==
  /\ tzLoaded = TRUE
  /\ input = <<>>
  /\ ref = Epoch
  /\ outcome = NoOutcome
  /\ calls = <<>>

ValidatorIdle ==
  /\ now = Epoch
  /\ cand = Epoch
  /\ verdict = "none"

NoShown == [kind |-> "none"]
NoPending == [kind |-> "none"]

CallerIdle ==
  /\ message = <<>>
  /\ shown = NoShown
  /\ pending = NoPending

HandlerIdle ==
  /\ clock = Epoch
  /\ context = NoContext
  /\ encounters = {}
  /\ handed = {}
  /\ reply = "none"

InitWith(G, R) ==
  /\ tzLoaded \in BOOLEAN
  /\ given \in G
  /\ input = Render(given)
  /\ ref \in R
  /\ outcome = NoOutcome
  /\ calls = <<>>
  /\ ValidatorIdle
  /\ HandlerIdle
  /\ CallerIdle

\* One call of ParseDateTimeRobust(input, ref).
Resolve ==
  /\ outcome = NoOutcome
  /\ outcome' = ParseDateTimeRobust(input, ref, tzLoaded)
  /\ UNCHANGED <<tzLoaded, given, input, ref, calls, validatorVars, handlerVars, callerVars>>

InitSlash == InitWith(SlashGiven, YearRefTimes)
SpecSlash == InitSlash /\ [][Resolve]_vars

InitRelative == InitWith(RelativeGiven, RefTimes)
SpecRelative == InitRelative /\ [][Resolve]_vars

InitPhrases == InitWith(PairGiven, YearRefTimes)
SpecPhrases == InitPhrases /\ [][Resolve]_vars

Init ==
  InitWith(SlashSample \cup RelativeGiven \cup DateOnlyGiven \cup DottedGiven,
           YearRefTimes)
Next == Resolve
Spec == Init /\ [][Next]_vars

InitStamp == InitWith(OffsetGiven \cup LocalGiven, YearRefTimes)
SpecStamp == InitStamp /\ [][Resolve]_vars

\* Inputs of every form.
AllGiven ==
  SlashSample \cup RelativeGiven \cup DateOnlyGiven \cup DottedGiven
    \cup OffsetGiven \cup LocalGiven \cup TextGiven

InitForms == InitWith(AllGiven, YearRefTimes)
SpecForms == InitForms /\ [][Resolve]_vars

\* ------------------------------------------------------------------------
\* ValidateDateTime under a clock
\* ------------------------------------------------------------------------

\* Candidates lie within this many seconds of each anchor.
MaxSkew == 1

\* The clock at the call: an ordinary day, a leap day and the day the clocks
\* go back, at noon UTC, read in UTC or in Berlin, on a whole second or not.
NowTimes ==
  {[t |-> DaysFromCivil(d[1], d[2], d[3]) * SecondsPerDay + 12 * SecondsPerHour,
    ns |-> n, loc |-> l] :
     d \in {<<2024, 11, 30>>, <<2024, 2, 29>>, <<2024, 10, 27>>},
     n \in {0, 500}, l \in {"UTC", "Berlin"}}

\* Where a candidate lies from now: calendar years, months and days, then
\* hours.
Anchors ==
  {[years |-> a[1], months |-> a[2], days |-> a[3], hours |-> a[4]] :
     a \in {<<0, 0, -30, 0>>, <<0, 0, -2, 0>>, <<0, 0, -1, 0>>,
            <<0, 0, 0, -24>>, <<0, 0, 0, -23>>, <<0, 0, 0, 0>>,
            <<0, 1, 0, 0>>, <<1, 0, 0, 0>>, <<2, 0, 0, 0>>, <<3, 0, 0, 0>>}}

CandidateGiven ==
  [form : {"candidate"}, anchor : Anchors, skew : (-MaxSkew)..MaxSkew,
   nanos : {-1, 0, 1}, loc : {"UTC", "Tokyo"}]

\* The candidate instant: the anchor from now, skewed, in its own location.
Candidate(g, n) ==
  LET a == AddSeconds(AddDate(n, g.anchor.years, g.anchor.months, g.anchor.days),
                      g.anchor.hours * SecondsPerHour + g.skew)
  IN [t |-> a.t, ns |-> n.ns + g.nanos, loc |-> g.loc]

InitValidate ==
  /\ given \in CandidateGiven
  /\ now \in NowTimes
  /\ now.ns + given.nanos >= 0
  /\ cand = Candidate(given, now)
  /\ verdict = "none"
  /\ ResolverIdle
  /\ HandlerIdle
  /\ CallerIdle

\* One call of ValidateDateTime(cand) while the clock reads now.
Validate ==
  /\ verdict = "none"
  /\ verdict' = ValidateDateTime(cand, now)
  /\ UNCHANGED <<resolverVars, now, cand, handlerVars, callerVars>>

SpecValidate == InitValidate /\ [][Validate]_vars

\* ------------------------------------------------------------------------
\* Same-day booking: "today" resolved at the clock, then validated
\* ------------------------------------------------------------------------

\* "today", alone or with a day part or a time of day in range.
TodayGiven ==
  {[form |-> "relative", phrase |-> K_today, add |-> 0, day |-> Absent,
    part |-> k, time |-> t] :
     k \in DayParts, t \in {NoTime, <<0, 0>>, <<2, 30>>, <<14, 30>>, <<23, 59>>}}

\* The clock of a booking: an ordinary day, the last day of the year, the day
\* the clocks go forward and the day they go back; just after midnight UTC,
\* in the morning and late in the evening; held in UTC, Berlin or Tokyo.
BookingTimes ==
  {RefAt(DaysFromCivil(d[1], d[2], d[3]), h, l) :
     d \in {<<2024, 11, 30>>, <<2024, 12, 31>>, <<2024, 3, 31>>, <<2024, 10, 27>>},
     h \in {0, 10, 22, 23}, l \in {"UTC", "Berlin", "Tokyo"}}

\* The reference time of the call is the clock.
InitBooking ==
  /\ tzLoaded \in BOOLEAN
  /\ given \in TodayGiven
  /\ input = Render(given)
  /\ now \in BookingTimes
  /\ ref = now
  /\ outcome = NoOutcome
  /\ calls = <<>>
  /\ cand = Epoch
  /\ verdict = "none"
  /\ HandlerIdle
  /\ CallerIdle

\* ValidateDateTime on the instant just resolved, the clock still at now.
ValidateResolved ==
  /\ outcome.kind = "instant"
  /\ verdict = "none"
  /\ cand' = outcome.time
  /\ verdict' = ValidateDateTime(outcome.time, now)
  /\ UNCHANGED <<resolverVars, now, handlerVars, callerVars>>

NextBooking == Resolve \/ ValidateResolved

SpecBooking == InitBooking /\ [][NextBooking]_vars

\* ------------------------------------------------------------------------
\* Handler.ScheduleAppointment
\* ------------------------------------------------------------------------

\* The encounters table holds at most this many rows.
MaxEncounters == 2
\* The clock advances at most this many hours.
MaxTicks == 2

\* The rows of the patients and practitioners tables.
Patients == {"p1"}
Practitioners == {"d1"}

\* database.CheckPatientExists, database.CheckPractitionerExists
CheckPatientExists(id) == id \in Patients
CheckPractitionerExists(id) == id \in Practitioners

\* h.GetContextPatientID(providedID), h.GetContextPractitionerID(providedID)
GetContextPatientID(providedID) ==
  IF providedID # "" THEN providedID ELSE context.PatientID
GetContextPractitionerID(providedID) ==
  IF providedID # "" THEN providedID ELSE context.PractitionerID

\* The identifiers a caller passes.
PatientArgs == {"", "p1", "p9"}
PractitionerArgs == {"", "d1", "d9"}
TypeArgs == {"", "Follow-up"}

\* The datetime texts a caller passes: timestamps four years back, the next
\* day and six years ahead, and texts only the resolver understands.
ScheduleTexts ==
  {FormatRFC3339(TimeAt(2020, 1, 1, 9, 0, "Berlin")),
   FormatRFC3339(TimeAt(2024, 12, 1, 14, 30, "Berlin")),
   FormatRFC3339(TimeAt(2030, 6, 1, 9, 0, "UTC")),
   Render([form |-> "slash", n1 |-> 6, n2 |-> 12, pad |-> TRUE, year |-> 2024,
           time |-> NoTime]),
   RenderDateOnly([year |-> 2024, month |-> 12, day |-> 1]),
   K_tomorrow}

ClockStart == RefAt(DaysFromCivil(2024, 11, 30), 10, "UTC")

InitSchedule ==
  /\ given = [form |-> "none"]
  /\ ResolverIdle
  /\ ValidatorIdle
  /\ clock = ClockStart
  /\ context = NoContext
  /\ encounters = {}
  /\ handed = {}
  /\ reply = "none"
  /\ CallerIdle

\* An hour passes.
Tick ==
  /\ clock.t < ClockStart.t + MaxTicks * SecondsPerHour
  /\ clock' = AddSeconds(clock, SecondsPerHour)
  /\ UNCHANGED <<resolverVars, validatorVars, context, encounters, handed, reply, callerVars>>

SetPatientContext ==
  \E patientID \in PatientArgs :
    /\ IF ~CheckPatientExists(patientID)
       THEN /\ reply' = "patient not found"
            /\ UNCHANGED context
       ELSE /\ context' = [context EXCEPT !.PatientID = patientID]
            /\ reply' = "context updated"
    /\ UNCHANGED <<resolverVars, validatorVars, clock, encounters, handed, callerVars>>

SetPractitionerContext ==
  \E practitionerID \in PractitionerArgs :
    /\ IF ~CheckPractitionerExists(practitionerID)
       THEN /\ reply' = "practitioner not found"
            /\ UNCHANGED context
       ELSE /\ context' = [context EXCEPT !.PractitionerID = practitionerID]
            /\ reply' = "context updated"
    /\ UNCHANGED <<resolverVars, validatorVars, clock, encounters, handed, callerVars>>

\* database.CreateEncounter: one more row.
CreateEncounter(encounter) == encounters' = encounters \cup {encounter}

\* One call of ScheduleAppointment. The new row's ID stands for the fresh
\* UUID; StartDateTime is kept as the instant its RFC 3339 text denotes.
ScheduleAppointment ==
  \E patientArg \in PatientArgs, practitionerArg \in PractitionerArgs,
     dateTime \in ScheduleTexts, typeArg \in TypeArgs :
    LET patientID == GetContextPatientID(patientArg)
        practitionerID == GetContextPractitionerID(practitionerArg)
        appointmentTime == Parse(LayoutRFC3339, dateTime)
        encounterID == Cardinality(encounters) + 1
        appointmentType == IF typeArg = "" THEN "General Consultation" ELSE typeArg
        failed == \/ patientID = ""
                  \/ practitionerID = ""
                  \/ ~CheckPatientExists(patientID)
                  \/ ~CheckPractitionerExists(practitionerID)
                  \/ ~appointmentTime.ok
    IN /\ Cardinality(encounters) < MaxEncounters
       /\ reply' =
            IF patientID = "" THEN "patient ID is required"
            ELSE IF practitionerID = "" THEN "practitioner ID is required"
            ELSE IF ~CheckPatientExists(patientID) THEN "patient not found"
            ELSE IF ~CheckPractitionerExists(practitionerID)
            THEN "practitioner not found"
            ELSE IF ~appointmentTime.ok THEN "invalid datetime format"
            ELSE "scheduled"
       /\ IF failed
          THEN UNCHANGED <<encounters, handed>>
          ELSE /\ CreateEncounter(
                    [ID |-> encounterID, Status |-> "planned",
                     Class |-> "ambulatory", TypeDisplay |-> appointmentType,
                     PatientID |-> patientID, PractitionerID |-> practitionerID,
                     StartDateTime |-> [appointmentTime.time EXCEPT !.ns = 0]])
               /\ handed' = handed \cup
                    {[ID |-> encounterID, requested |-> dateTime, at |-> clock]}
       /\ UNCHANGED <<resolverVars, validatorVars, clock, context, callerVars>>

NextSchedule ==
  \/ Tick
  \/ SetPatientContext
  \/ SetPractitionerContext
  \/ ScheduleAppointment

SpecSchedule == InitSchedule /\ [][NextSchedule]_vars

\* ------------------------------------------------------------------------
\* Several calls of ParseDateTimeRobust in flight at once
\* ------------------------------------------------------------------------

\* The most calls issued in one behaviour.
MaxCalls == 2

\* The texts the calls are issued with: one that takes its year from the
\* reference time, one that takes its day from it, one that takes nothing
\* from it, and a blank one.
CallGiven ==
  {g \in SlashGiven : g.pad /\ g.n1 = 6 /\ g.n2 = 12 /\ g.year = Absent /\ g.time = NoTime}
    \cup {g \in RelativeGiven : g.phrase = K_tomorrow /\ g.part = <<>> /\ g.time = NoTime}
    \cup {g \in LocalGiven : g.sep = "T" /\ g.month = 12 /\ g.day = 15 /\ g.hour = 9
                             /\ g.minute = 0 /\ g.second = 0}
    \cup {g \in TextGiven : g.text = <<" ">>}

\* A reference time in 2024 and one in 2025.
CallRefTimes == {r \in YearRefTimes : r.loc = "Tokyo" \/ Civil(r).month = 11}

\* The frame of a call at its entry: its two arguments, and its locals input
\* (the trimmed text), berlinTZ and the value it returns, none of them set.
NewCall(text, referenceTime) ==
  [text |-> text, referenceTime |-> referenceTime, input |-> <<>>,
   berlinTZ |-> "none", outcome |-> NoOutcome, pc |-> "trim"]

\* The referenceTime a call works with: its own argument, but that of the
\* call issued last, as if the argument were kept in a package variable.
CallReference_Shared(cs, i) == cs[Len(cs)].referenceTime

\* The referenceTime a call works with: its own argument.
CallReference(cs, i) == cs[i].referenceTime

\* The frame of a call after input = strings.TrimSpace(input) and the test
\* for the empty string.
Trimmed(c, trimmed) ==
  IF trimmed = <<>>
  THEN [c EXCEPT !.outcome = Failure("empty datetime string"), !.pc = "done"]
  ELSE [c EXCEPT !.input = trimmed, !.pc = "load"]

InitCalls ==
  /\ tzLoaded \in BOOLEAN
  /\ given = [form |-> "none"]
  /\ input = <<>>
  /\ ref = Epoch
  /\ outcome = NoOutcome
  /\ calls = <<>>
  /\ ValidatorIdle
  /\ HandlerIdle
  /\ CallerIdle

\* A caller enters ParseDateTimeRobust(text, referenceTime).
Issue ==
  /\ Len(calls) < MaxCalls
  /\ \E g \in CallGiven, r \in CallRefTimes :
       calls' = Append(calls, NewCall(Render(g), r))
  /\ UNCHANGED <<tzLoaded, given, input, ref, outcome, validatorVars, handlerVars, callerVars>>

\* A call trims its text and returns at once when nothing is left.
Trim ==
  \E i \in 1..Len(calls) :
    /\ calls[i].pc = "trim"
    /\ calls' = [calls EXCEPT ![i] = Trimmed(calls[i], TrimSpace(calls[i].text))]
    /\ UNCHANGED <<tzLoaded, given, input, ref, outcome, validatorVars, handlerVars, callerVars>>

\* A call loads the zone, or falls back to UTC.
Load ==
  \E i \in 1..Len(calls) :
    /\ calls[i].pc = "load"
    /\ calls' = [calls EXCEPT ![i].berlinTZ = BerlinTZ(tzLoaded), ![i].pc = "match"]
    /\ UNCHANGED <<tzLoaded, given, input, ref, outcome, validatorVars, handlerVars, callerVars>>

\* A call tries the matchers on its trimmed text and returns.
Match ==
  \E i \in 1..Len(calls) :
    /\ calls[i].pc = "match"
    /\ calls' = [calls EXCEPT
                   ![i].outcome = ResolveIn(calls[i].input, CallReference(calls, i),
                                            calls[i].berlinTZ),
                   ![i].pc = "done"]
    /\ UNCHANGED <<tzLoaded, given, input, ref, outcome, validatorVars, handlerVars, callerVars>>

NextCalls == Issue \/ Trim \/ Load \/ Match

SpecCalls == InitCalls /\ [][NextCalls]_vars

\* ------------------------------------------------------------------------
\* AmbiguousDateError.ToUserMessage
\* ------------------------------------------------------------------------

\* The most options of an AmbiguousDateError.
MaxOptions == 3

\* A text is a sequence of pieces; "\n" ends a line.
\* fmt.Sprintf("%s) %s\n", opt.Key, opt.DisplayText) without the key.
OptionLine_NoKey(opt) == <<opt.displayText, "\n">>

\* fmt.Sprintf("%s) %s\n", opt.Key, opt.DisplayText)
OptionLine(opt) == <<opt.key, ") ", opt.displayText, "\n">>

\* for _, opt := range e.Options { msg += ... }
RECURSIVE OptionLines(_)
OptionLines(options) ==
  IF options = <<>> THEN <<>>
  ELSE OptionLine(Head(options)) \o OptionLines(Tail(options))

\* e.ToUserMessage()
ToUserMessage(e) ==
  <<"The date '", e.originalInput, "' is ambiguous. Please choose:", "\n", "\n">>
    \o OptionLines(e.options)
    \o <<"\n", "Please specify which date you meant (A, B, etc.)">>

\* The errors ToUserMessage is called on: any options, in any order, the
\* same option twice included, and none at all.
OptionGiven == [key : {"A", "B"}, displayText : {"June 12, 2024", "December 6, 2024"}]

OptionLists ==
  UNION {[1..n -> OptionGiven] : n \in 0..MaxOptions}

ErrorGiven ==
  [form : {"error"}, originalInput : {"06/12/2024", "6/12"}, options : OptionLists]

InitMessage ==
  /\ given \in ErrorGiven
  /\ ResolverIdle
  /\ ValidatorIdle
  /\ HandlerIdle
  /\ CallerIdle

\* One call of given.ToUserMessage().
UserMessage ==
  /\ message = <<>>
  /\ message' = ToUserMessage(given)
  /\ UNCHANGED <<resolverVars, validatorVars, handlerVars, shown, pending>>

SpecMessage == InitMessage /\ [][UserMessage]_vars

\* ------------------------------------------------------------------------
\* FormatDateTimeForDisplay
\* ------------------------------------------------------------------------

\* The zone abbreviation the layout's MST stands for in Europe/Berlin.
ZoneName(off) == IF off = 2 * SecondsPerHour THEN "CEST" ELSE "CET"

\* localTime.Format("Monday, January 2, 2006 at 15:04 MST"): the fields the
\* text shows.
DisplayText(localTime) ==
  [kind |-> "text", fields |-> FormatLong(localTime),
   zone |-> ZoneName(ZoneOffset(localTime.loc, localTime.t))]

\* FormatDateTimeForDisplay(t). The error of time.LoadLocation is dropped;
\* when the zone cannot be loaded berlinTZ is nil and t.In(nil) panics.
FormatDateTimeForDisplay(t, loaded) ==
  IF loaded THEN DisplayText(In(t, "Berlin")) ELSE [kind |-> "panic"]

\* The timestamps whose instants are shown.
DisplayGiven ==
  {g \in OffsetGiven : g.minute = 30 /\ g.second = 0 /\ g.tenths = Absent}

InitDisplay == InitWith(DisplayGiven, YearRefTimes)

\* The resolved instant, held in any location, is formatted for display.
Display ==
  /\ outcome.kind = "instant"
  /\ shown = NoShown
  /\ \E z \in {"UTC", "Berlin", "Tokyo"} :
       /\ cand' = In(outcome.time, z)
       /\ shown' = FormatDateTimeForDisplay(In(outcome.time, z), tzLoaded)
  /\ UNCHANGED <<resolverVars, now, verdict, handlerVars, message, pending>>

NextDisplay == Resolve \/ Display

SpecDisplay == InitDisplay /\ [][NextDisplay]_vars

\* ------------------------------------------------------------------------
\* The pending date confirmation and ConfirmDateChoice. Neither is in the
\* sources (server.go calls h.ConfirmDateChoice, which no file defines);
\* both follow the documented workflow: an ambiguous date is stored with its
\* options and the time of storing, a choice made within 30 minutes
\* schedules the chosen option and removes the pending confirmation, a
\* later one fails with "date confirmation expired".
\* ------------------------------------------------------------------------

\* The clock advances at most this many quarters of an hour.
MaxQuarters == 5

\* Pending confirmations expire after this many minutes.
ConfirmMinutes == 30

\* The ambiguous texts an appointment is requested with.
PendingGiven ==
  {g \in SlashSample : g.pad /\ g.n1 = 6 /\ g.n2 = 12 /\ g.year = 2024}

\* The keys a user answers with.
ChoiceArgs == {"A", "B", "C"}

\* PendingDateConfirmation{OriginalInput, Options, CreatedAt}
Pending(e, createdAt) ==
  [kind |-> "pending", originalInput |-> e.originalInput, options |-> e.options,
   createdAt |-> createdAt]

\* A pending confirmation that never expires.
Expired_Never(p, at) == FALSE

\* The pending confirmation p is older than 30 minutes at the time at.
Expired(p, at) == at.t - p.createdAt.t > ConfirmMinutes * SecondsPerMinute

\* The options of p that carry the key choice.
Chosen(p, choice) == {i \in 1..Len(p.options) : p.options[i].key = choice}

InitConfirm ==
  /\ given = [form |-> "none"]
  /\ ResolverIdle
  /\ ValidatorIdle
  /\ clock = ClockStart
  /\ context = NoContext
  /\ encounters = {}
  /\ handed = {}
  /\ reply = "none"
  /\ CallerIdle

\* A quarter of an hour passes.
Quarter ==
  /\ clock.t < ClockStart.t + MaxQuarters * 15 * SecondsPerMinute
  /\ clock' = AddSeconds(clock, 15 * SecondsPerMinute)
  /\ UNCHANGED <<resolverVars, validatorVars, context, encounters, handed, reply, callerVars>>

\* An appointment is requested with an ambiguous date: the ambiguity is
\* stored for confirmation, nothing is scheduled.
StorePending ==
  /\ Cardinality(encounters) < MaxEncounters
  /\ \E g \in PendingGiven :
       /\ ParseDateTimeRobust(Render(g), clock, tzLoaded).kind = "ambiguous"
       /\ pending' = Pending(ParseDateTimeRobust(Render(g), clock, tzLoaded), clock)
  /\ reply' = "ambiguous date"
  /\ UNCHANGED <<resolverVars, validatorVars, clock, context, encounters, handed,
                 message, shown>>

\* One call of ConfirmDateChoice(choice).
ConfirmDateChoice ==
  \E choice \in ChoiceArgs :
    /\ IF pending = NoPending
       THEN /\ reply' = "no pending date confirmation"
            /\ UNCHANGED <<pending, encounters, handed>>
       ELSE IF Expired(pending, clock)
       THEN /\ reply' = "date confirmation expired"
            /\ pending' = NoPending
            /\ UNCHANGED <<encounters, handed>>
       ELSE IF Chosen(pending, choice) = {}
       THEN /\ reply' = "invalid choice"
            /\ UNCHANGED <<pending, encounters, handed>>
       ELSE /\ CreateEncounter(
                 [ID |-> Cardinality(encounters) + 1, Status |-> "planned",
                  Class |-> "ambulatory", TypeDisplay |-> "General Consultation",
                  PatientID |-> "p1", PractitionerID |-> "d1",
                  StartDateTime |-> pending.options[Least(Chosen(pending, choice))].dateTime])
            /\ handed' = handed \cup
                 {[ID |-> Cardinality(encounters) + 1,
                   requested |-> pending.originalInput, at |-> clock]}
            /\ pending' = NoPending
            /\ reply' = "scheduled"
    /\ UNCHANGED <<resolverVars, validatorVars, clock, context, message, shown>>

NextConfirm ==
  \/ Quarter
  \/ StorePending
  \/ ConfirmDateChoice

SpecConfirm == InitConfirm /\ [][NextConfirm]_vars

\* ------------------------------------------------------------------------
\* Properties
\* ------------------------------------------------------------------------

\* The zone the resolver works in.
TargetZone == BerlinTZ(tzLoaded)

Resolved == outcome.kind # "none"

\* The civil fields of a time as seen in the target zone.
TargetCivil(tm) == Civil(In(tm, TargetZone))

\* The time component of the input is absent or in range.
TimeAbsentOrInRange(g) ==
  g.time = NoTime \/ (g.time[1] \in 0..23 /\ g.time[2] \in 0..59)

\* The year a slash date names: as written, in the 2000s when below 100.
NamedYear(g) == IF g.year < 100 THEN 2000 + g.year ELSE g.year

\* The years the reference time lies in, in its own and in the target zone.
RefYears == {Civil(ref).year, TargetCivil(ref).year}

\* The hour and minute an input names, 09:00 when it writes none.
NamedHour(g) == IF g.time = NoTime THEN 9 ELSE g.time[1]
NamedMinute(g) == IF g.time = NoTime THEN 0 ELSE g.time[2]

BothMonths(g) == g.n1 \in 1..12 /\ g.n2 \in 1..12 /\ g.n1 # g.n2

\* C1: a slash date whose time is absent or in range is ambiguous exactly
\* when both numbers are in 1..12 and differ; the ambiguous result then has
\* exactly two options, "A" the month/day reading labelled "MM/DD format"
\* and "B" the day/month reading labelled "DD/MM format", in this order.
C1_AmbiguousIffBothMonths ==
  (Resolved /\ given.form = "slash" /\ TimeAbsentOrInRange(given)) =>
    /\ (outcome.kind = "ambiguous") <=> BothMonths(given)
    /\ outcome.kind = "ambiguous" =>
         /\ Len(outcome.options) = 2
         /\ outcome.options[1].key = "A"
         /\ outcome.options[1].label = "MM/DD format"
         /\ TargetCivil(outcome.options[1].dateTime).month = given.n1
         /\ TargetCivil(outcome.options[1].dateTime).day = given.n2
         /\ outcome.options[2].key = "B"
         /\ outcome.options[2].label = "DD/MM format"
         /\ TargetCivil(outcome.options[2].dateTime).month = given.n2
         /\ TargetCivil(outcome.options[2].dateTime).day = given.n1

\* 06/12/2024 has been resolved into options A = 12 June and B = 6 December.
C1_Witness ==
  /\ outcome.kind = "ambiguous"
  /\ given.form = "slash" /\ given.n1 = 6 /\ given.n2 = 12
  /\ given.year = 2024 /\ given.time = NoTime /\ tzLoaded
  /\ TargetCivil(outcome.options[1].dateTime).month = 6
  /\ TargetCivil(outcome.options[2].dateTime).month = 12

\* The civil fields of tm in the target zone are exactly month m, day d of
\* the year and time of day the slash date g names.
IsExactly(tm, g, m, d) ==
  LET c == TargetCivil(tm)
  IN /\ c.month = m /\ c.day = d
     /\ c.hour = NamedHour(g) /\ c.minute = NamedMinute(g) /\ c.second = 0
     /\ IF g.year = Absent THEN c.year \in RefYears ELSE c.year = NamedYear(g)

\* C2: each option of an ambiguous result is a real calendar date/time, its
\* civil year, month, day, hour and minute in the target zone being those
\* of its reading, and the two options are different instants.
C2_OptionsAreRealDates ==
  outcome.kind = "ambiguous" =>
    /\ IsExactly(outcome.options[1].dateTime, given, given.n1, given.n2)
    /\ IsExactly(outcome.options[2].dateTime, given, given.n2, given.n1)
    /\ TargetCivil(outcome.options[1].dateTime).year
         = TargetCivil(outcome.options[2].dateTime).year
    /\ outcome.options[1].dateTime.t # outcome.options[2].dateTime.t

\* 1/12 14:30 without a year, resolved late on 31 December, is ambiguous.
C2_Witness ==
  /\ outcome.kind = "ambiguous"
  /\ given.n1 = 1 /\ given.n2 = 12 /\ given.year = Absent
  /\ given.time = <<14, 30>>
  /\ TargetCivil(ref).year = 2025
  /\ TargetCivil(outcome.options[2].dateTime).hour = 14

\* The civil date of tm in the target zone is day d of month m of the year
\* g names, a d past the month's end counting on into the next month; when
\* the month has a day d the date is exactly that day.
IsReading(tm, g, m, d) ==
  LET c == TargetCivil(tm)
      y == IF g.year = Absent THEN c.year ELSE NamedYear(g)
  IN /\ m \in 1..12
     /\ g.year = Absent => c.year \in RefYears
     /\ DaysFromCivil(c.year, c.month, c.day) = DaysFromCivil(y, m, 1) + (d - 1)
     /\ d <= DaysIn(m, y) => (c.year = y /\ c.month = m /\ c.day = d)

OnNamedDate(tm, g) ==
  LET c == TargetCivil(tm)
      Is(y, m, d) ==
        m \in 1..12 /\ d >= 1 /\ d <= DaysIn(m, y)
          /\ c.year = y /\ c.month = m /\ c.day = d
  IN CASE g.form = "slash" ->
            \E y \in (IF g.year = Absent THEN RefYears ELSE {NamedYear(g)}) :
              Is(y, g.n1, g.n2) \/ Is(y, g.n2, g.n1)
       [] g.form \in {"dateonly", "dotted"} -> Is(g.year, g.month, g.day)
       [] OTHER -> TRUE

\* C4: an instant is returned only for an input that names a calendar date
\* that exists; a day that does not exist in its month (30/02/2024,
\* 31/04/2024, 02/30/2024, 30.02.2024) gives a failure, never an instant on
\* some other date.
C4_OnlyExistingDates ==
  outcome.kind = "instant" => OnNamedDate(outcome.time, given)

\* The day number of the civil date of tm in the target zone.
TargetDay(tm) ==
  LET c == TargetCivil(tm) IN DaysFromCivil(c.year, c.month, c.day)

\* The hour each day-part keyword stands for.
KeywordHour(part) ==
  CASE part = K_morning -> 9
    [] part \in {K_noon, K_midday} -> 12
    [] part = K_afternoon -> 14
    [] part = K_evening -> 18
    [] OTHER -> 9

\* C6: a relative input without an explicit HH:MM resolves to the time of
\* day of its day-part keyword: morning 09:00, noon and midday 12:00,
\* afternoon 14:00, evening 18:00, none 09:00.
C6_DayPartKeyword ==
  (Resolved /\ given.form = "relative" /\ given.time = NoTime) =>
    /\ outcome.kind = "instant"
    /\ TargetCivil(outcome.time).hour = KeywordHour(given.part)
    /\ TargetCivil(outcome.time).minute = 0

\* C7: "next <weekday>" resolves to a date strictly after the reference's
\* date in the target zone, at most 7 days after it, on the named weekday,
\* and exactly 7 days later when the reference date is that weekday; "next
\* monday" on Saturday 2024-11-30 gives Monday 2024-12-02.
C7_NextWeekday ==
  (Resolved /\ given.form = "relative" /\ given.day # Absent
     /\ TimeAbsentOrInRange(given)) =>
    /\ outcome.kind = "instant"
    /\ TargetDay(outcome.time) > TargetDay(ref)
    /\ TargetDay(outcome.time) <= TargetDay(ref) + 7
    /\ TargetCivil(outcome.time).weekday = given.day
    /\ TargetCivil(ref).weekday = given.day =>
         TargetDay(outcome.time) = TargetDay(ref) + 7
    /\ (given.day = Monday /\ TargetDay(ref) = DaysFromCivil(2024, 11, 30)) =>
         TargetDay(outcome.time) = DaysFromCivil(2024, 12, 2)

\* "next saturday" has been resolved on a Saturday, to the Saturday after.
C7_Witness ==
  /\ outcome.kind = "instant"
  /\ given.form = "relative" /\ given.day = Saturday /\ given.time = NoTime
  /\ TargetCivil(ref).weekday = Saturday
  /\ TargetDay(outcome.time) = TargetDay(ref) + 7

\* C8: "today", "tomorrow", "next week" and "in N days", with a time of day
\* absent or in range, resolve to the reference's civil date as seen in the
\* target zone plus 0, 1, 7 and N days, carrying across month and year
\* ends: on 2024-11-30 "tomorrow" gives 2024-12-01, "in 3 days" 2024-12-03.
C8_RelativeDate ==
  (Resolved /\ given.form = "relative" /\ given.add # Absent
     /\ TimeAbsentOrInRange(given)) =>
    /\ outcome.kind = "instant"
    /\ TargetDay(outcome.time) = TargetDay(ref) + given.add
    /\ (TargetDay(ref) = DaysFromCivil(2024, 11, 30) /\ given.add \in {1, 3}) =>
         /\ TargetCivil(outcome.time).year = 2024
         /\ TargetCivil(outcome.time).month = 12
         /\ TargetCivil(outcome.time).day = given.add

\* "tomorrow" has been resolved at 23:30 UTC on 2024-12-31, 1 January 2025
\* in Berlin, to 2 January 2025.
C8_Witness ==
  /\ outcome.kind = "instant"
  /\ given.form = "relative" /\ given.phrase = K_tomorrow
  /\ tzLoaded /\ ref = RefAt(DaysFromCivil(2024, 12, 31), 23, "UTC")
  /\ TargetCivil(outcome.time).year = 2025
  /\ TargetCivil(outcome.time).month = 1
  /\ TargetCivil(outcome.time).day = 2

\* The input writes a date and no time of day.
DateWithoutTime(g) ==
  CASE g.form = "dateonly" -> TRUE
    [] g.form \in {"dotted", "slash"} -> g.time = NoTime
    [] g.form = "relative" -> g.time = NoTime /\ g.part = <<>>

\* tm is at 09:00:00 in the target zone.
IsAtNine(tm) ==
  LET c == TargetCivil(tm)
  IN c.hour = 9 /\ c.minute = 0 /\ c.second = 0 /\ tm.ns = 0

\* tm lies on the date the input g names.
OnDateOf(tm, g) ==
  LET c == TargetCivil(tm)
  IN CASE g.form \in {"dateonly", "dotted"} ->
            c.year = g.year /\ c.month = g.month /\ c.day = g.day
       [] g.form = "slash" ->
            IsReading(tm, g, g.n1, g.n2) \/ IsReading(tm, g, g.n2, g.n1)
       [] g.form = "relative" ->
            IF g.add # Absent THEN TargetDay(tm) = TargetDay(ref) + g.add
            ELSE c.weekday = g.day /\ TargetDay(tm) > TargetDay(ref)
                   /\ TargetDay(tm) <= TargetDay(ref) + 7

GraceStart(n) == [t |-> n.t - 24 * 3600, ns |-> n.ns]
Horizon(n) ==
  LET c == Civil(n)
      h == GoDate(c.year + 2, c.month, c.day, c.hour, c.minute, c.second, 0, n.loc)
  IN [t |-> h.t, ns |-> n.ns]
NotBefore(a, b) == a.t > b.t \/ (a.t = b.t /\ a.ns >= b.ns)
InWindow(tm, n) == NotBefore(tm, GraceStart(n)) /\ NotBefore(Horizon(n), tm)

AtAnchor(years, months, days, hours) ==
  /\ given.anchor = [years |-> years, months |-> months, days |-> days,
                     hours |-> hours]
  /\ given.skew = 0
  /\ given.nanos = 0

\* C9: ValidateDateTime accepts an instant exactly when it lies from 24
\* hours before now to two calendar years after now, both bounds accepted;
\* earlier instants get "datetime is in the past", later ones "datetime is
\* too far in the future". 30 days or 2 days in the past and 3 years ahead
\* are rejected; 23 hours in the past, 1 month and 1 year ahead are accepted.
C9_ValidationWindow ==
  verdict # "none" =>
    /\ (verdict = "ok") <=> InWindow(cand, now)
    /\ ~NotBefore(cand, GraceStart(now)) => verdict = "datetime is in the past"
    /\ ~NotBefore(Horizon(now), cand)
         => verdict = "datetime is too far in the future"
    /\ AtAnchor(0, 0, -30, 0) \/ AtAnchor(0, 0, -2, 0) => verdict = "datetime is in the past"
    /\ AtAnchor(3, 0, 0, 0) => verdict = "datetime is too far in the future"
    /\ AtAnchor(0, 0, 0, -23) \/ AtAnchor(0, 1, 0, 0) \/ AtAnchor(1, 0, 0, 0)
         => verdict = "ok"

\* An instant exactly 24 hours before a clock reading with a fraction of a
\* second has been accepted.
C9_Witness ==
  /\ verdict = "ok"
  /\ now.ns > 0
  /\ cand.t = now.t - 24 * 3600
  /\ cand.ns = now.ns

\* The row of the encounters table a hand-over created.
RowOf(h) == CHOOSE e \in encounters : e.ID = h.ID

\* C5: every encounter handed to CreateEncounter was requested with a text
\* the resolver resolves to a single instant at that moment, and starts no
\* more than 24 hours before and no more than two years after the moment
\* it was created.
C5_OnlyResolvedAndValidated ==
  \A h \in handed :
    /\ ParseDateTimeRobust(h.requested, h.at, TRUE).kind = "instant"
    /\ InWindow(RowOf(h).StartDateTime, h.at)

\* The date a timestamp writes exists in the calendar.
DateExists(g) == g.day >= 1 /\ g.day <= DaysIn(g.month, g.year)

\* The seconds a timestamp writes, 0 when it writes none.
WrittenSecond(g) == IF g.second = Absent THEN 0 ELSE g.second

\* The fields a timestamp writes, counted as seconds of a wall clock.
WrittenWall(g) ==
  DaysFromCivil(g.year, g.month, g.day) * 86400 + g.hour * 3600
    + g.minute * 60 + WrittenSecond(g)

\* C11: a timestamp written with a UTC offset or with Z resolves to exactly
\* the instant written, expressed in the target zone; so
\* 2024-12-01T14:30:00+01:00 reads 14:30 in Berlin, a Z-suffixed 09:00 in
\* December reads 10:00 there, and a Z-suffixed timestamp keeps its fields
\* in UTC (it is not taken as wall-clock time of the target zone).
C11_OffsetTimestamp ==
  (Resolved /\ given.form = "offset" /\ DateExists(given)) =>
    /\ outcome.kind = "instant"
    /\ outcome.time.t = WrittenWall(given) - given.off
    /\ outcome.time.ns = (IF given.tenths = Absent THEN 0
                          ELSE given.tenths * 100000000)
    /\ outcome.time.loc = TargetZone
    /\ given.zulu =>
         /\ Civil(In(outcome.time, "UTC")).hour = given.hour
         /\ Civil(In(outcome.time, "UTC")).minute = given.minute
         /\ Civil(In(outcome.time, "UTC")).day = given.day
    /\ (tzLoaded /\ given.off = 3600 /\ given.month = 12 /\ given.day = 1
          /\ given.hour = 14 /\ given.minute = 30) =>
         /\ TargetCivil(outcome.time).day = 1
         /\ TargetCivil(outcome.time).hour = 14
         /\ TargetCivil(outcome.time).minute = 30
    /\ (tzLoaded /\ given.zulu /\ given.month = 12 /\ given.hour = 9) =>
         TargetCivil(outcome.time).hour = 10

\* 2024-12-01T09:00:00Z has been resolved and reads 10:00 in Berlin.
C11_Witness ==
  /\ outcome.kind = "instant" /\ tzLoaded
  /\ given.form = "offset" /\ given.zulu /\ given.month = 12 /\ given.day = 1
  /\ given.hour = 9 /\ given.minute = 0 /\ given.second = 0
  /\ given.tenths = Absent
  /\ TargetCivil(outcome.time).hour = 10
  /\ TargetCivil(outcome.time).minute = 0

\* The civil fields of tm in the target zone are those the timestamp g
\* writes.
ReadsAsWritten(tm, g) ==
  /\ TargetCivil(tm).year = g.year
  /\ TargetCivil(tm).month = g.month
  /\ TargetCivil(tm).day = g.day
  /\ TargetCivil(tm).hour = g.hour
  /\ TargetCivil(tm).minute = g.minute

\* C12: a timestamp written without offset (date, "T" or a space, time)
\* resolves to an instant whose year, month, day, hour and minute in the
\* target zone are exactly those written, whatever the reference time.
C12_LocalAsWritten ==
  (Resolved /\ given.form = "local" /\ DateExists(given)) =>
    /\ outcome.kind = "instant"
    /\ ReadsAsWritten(outcome.time, given)

\* The instants an outcome hands to the caller: the instant itself, or the
\* instants of the options of an ambiguous result.
InstantsOf(o) ==
  IF o.kind = "instant" THEN {o.time}
  ELSE IF o.kind = "ambiguous"
  THEN {o.options[i].dateTime : i \in 1..Len(o.options)}
  ELSE {}

\* C13: every instant the resolver returns, and every option instant of an
\* ambiguous result, is expressed in Europe/Berlin, for every input form,
\* reference time and environment in which the resolver returns a result.
C13_AlwaysBerlin ==
  Resolved => \A tm \in InstantsOf(outcome) : tm.loc = "Berlin"

\* What one layout alone makes of the text s: the instant it reads, in tz.
ByLayout(layout, s, tz) ==
  IF ParseInLocation(layout, s, tz).ok
  THEN Instant(ParseInLocation(layout, s, tz).time)
  ELSE Failure("no match")

\* The first of two outcomes that is a result.
OrElse(a, b) == IF a.kind \in {"instant", "ambiguous"} THEN a ELSE b

\* What each matcher alone makes of the trimmed text s, in the order offset
\* timestamp, UTC-marked timestamp, local with T, local with a space,
\* date-only, dotted, slash, relative.
Matchers(s, r, tz) ==
  <<OrElse(IF Parse(LayoutRFC3339, s).ok
           THEN Instant(In(Parse(LayoutRFC3339, s).time, tz))
           ELSE Failure("no match"),
           IF Parse(LayoutRFC3339Nano, s).ok
           THEN Instant(In(Parse(LayoutRFC3339Nano, s).time, tz))
           ELSE Failure("no match")),
    ByLayout(LayoutISO8601WithTZ, s, tz),
    OrElse(ByLayout(LayoutISO8601, s, tz), ByLayout(LayoutISO8601Short, s, tz)),
    OrElse(ByLayout(LayoutDateTimeSpace, s, tz),
           ByLayout(LayoutDateTimeSpaceShort, s, tz)),
    IF ParseInLocation(LayoutDateOnly, s, tz).ok
    THEN Instant(AtNine(ParseInLocation(LayoutDateOnly, s, tz).time, tz))
    ELSE Failure("no match"),
    OrElse(ByLayout(LayoutGermanDateTime, s, tz),
           IF ParseInLocation(LayoutGermanDate, s, tz).ok
           THEN Instant(AtNine(ParseInLocation(LayoutGermanDate, s, tz).time, tz))
           ELSE Failure("no match")),
    parseSlashFormat(s, tz, r),
    parseRelativeDate(s, r, tz)>>

\* The matchers that give a result.
Matching(ms) == {i \in 1..Len(ms) : ms[i].kind \in {"instant", "ambiguous"}}

\* C14: the outcome is that of the first matcher, in the order offset
\* timestamp, UTC-marked, local T, local space, date-only, dotted, slash,
\* relative, that gives an instant or an ambiguity, and a failure when none
\* does; a dotted DD.MM.YYYY text is never ambiguous and, when it resolves,
\* its first number is the day and its second the month.
C14_FirstMatcherWins ==
  (Resolved /\ TrimSpace(input) # <<>>) =>
    LET ms == Matchers(TrimSpace(input), ref, TargetZone)
    IN /\ IF Matching(ms) = {} THEN outcome.kind = "failure"
          ELSE outcome = ms[Least(Matching(ms))]
       /\ given.form = "dotted" =>
            /\ outcome.kind # "ambiguous"
            /\ outcome.kind = "instant" =>
                 /\ TargetCivil(outcome.time).day = given.day
                 /\ TargetCivil(outcome.time).month = given.month
                 /\ TargetCivil(outcome.time).year = given.year
            /\ DateExists(given) => outcome.kind = "instant"

\* A text ending in Z is matched by the offset matcher and by the UTC-marked
\* one, which read different instants from it; the outcome is the first.
C14_Witness ==
  /\ Resolved
  /\ given.form = "offset"
  /\ given.zulu
  /\ Matching(Matchers(TrimSpace(input), ref, TargetZone)) = {1, 2}
  /\ Matchers(TrimSpace(input), ref, TargetZone)[1] # Matchers(TrimSpace(input), ref, TargetZone)[2]
  /\ outcome = Matchers(TrimSpace(input), ref, TargetZone)[1]

\* The slash input writes a time whose hour is above 23 or whose minute is
\* above 59.
TimeOutOfRange(g) ==
  /\ g.form = "slash"
  /\ g.time # NoTime
  /\ (g.time[1] > 23 \/ g.time[2] > 59)

\* C15: a slash input whose HH:MM has hour > 23 or minute > 59 resolves to a
\* failure, never to an instant or an ambiguity, whatever its date part: the
\* slash branch rejects it for its time before it classifies the date.
C15_TimeOutOfRangeFails ==
  (Resolved /\ TimeOutOfRange(given)) =>
    /\ outcome.kind = "failure"
    /\ parseSlashFormat(TrimSpace(input), TargetZone, ref)
         = Failure("invalid time component")

\* 06/12/2024 25:00, whose date alone is ambiguous, fails.
C15_Witness ==
  /\ Resolved
  /\ TimeOutOfRange(given)
  /\ BothMonths(given)
  /\ given.n1 # given.n2
  /\ outcome.kind = "failure"

\* Neither reading of the two numbers of a slash input is a month and a day.
NeitherReading(g) ==
  /\ g.form = "slash"
  /\ ~(g.n1 \in 1..12 /\ g.n2 \in 1..31)
  /\ ~(g.n2 \in 1..12 /\ g.n1 \in 1..31)

\* C16: a slash input neither reading of which is valid (99/99/2024, 15/20,
\* 00/05) resolves to a failure whose reason is "invalid date components".
C16_InvalidDateComponents ==
  (Resolved /\ NeitherReading(given) /\ ~TimeOutOfRange(given)) =>
    outcome = Failure("invalid date components")

\* The text is empty or made of white space only.
Blank(s) == \A i \in 1..Len(s) : s[i] \in Spaces

\* C17: a text that is empty or white space only resolves to the failure
\* "empty datetime string", whatever the reference time; a text that no
\* matcher matches resolves to a failure.
C17_EmptyAndUnmatched ==
  Resolved =>
    /\ Blank(input) => outcome = Failure("empty datetime string")
    /\ Matching(Matchers(TrimSpace(input), ref, TargetZone)) = {} =>
         outcome.kind = "failure"

\* A text of white space only has been refused as empty.
C17_Witness ==
  /\ Resolved
  /\ given.form = "text"
  /\ Len(input) > 1
  /\ Blank(input)
  /\ outcome = Failure("empty datetime string")

\* The year a slash input stands for: the reference's year when it writes
\* none, 2000 + Y when it writes Y below 100, the year as written otherwise.
SlashYearOf(g, r) == IF g.year = Absent THEN Civil(r).year ELSE NamedYear(g)

\* C18: the instant a slash input resolves to, and each option when it is
\* ambiguous, lies in the year of the reference time when the input omits
\* the year, in 2000 + Y when it writes a year Y below 100, and in the year
\* as written otherwise.
C18_SlashYear ==
  (Resolved /\ given.form = "slash") =>
    \A tm \in InstantsOf(outcome) :
      TargetCivil(tm).year = SlashYearOf(given, ref)

\* A slash date without a year has resolved from a reference time whose year
\* is not the year of the same moment in the target zone.
C18_Witness ==
  /\ Resolved
  /\ given.form = "slash"
  /\ given.year = Absent
  /\ Civil(ref).year # TargetCivil(ref).year
  /\ outcome.kind = "ambiguous"
  /\ \A tm \in InstantsOf(outcome) : TargetCivil(tm).year = Civil(ref).year

\* The inputs that name their date in full: the offset, UTC-marked, local,
\* date-only and dotted forms, and the slash form when it writes its year.
NamesItsDate(g) ==
  \/ g.form \in {"offset", "local", "dateonly", "dotted"}
  \/ (g.form = "slash" /\ g.year # Absent)

\* C19: for an input in the offset, UTC-marked, local, date-only or dotted
\* form, or in the slash form with its year written, every reference time
\* gives the outcome this call gave: the same instant, the same ambiguous
\* result or the same failure.
C19_ReferenceUnused ==
  (Resolved /\ NamesItsDate(given)) =>
    \A r \in YearRefTimes : ParseDateTimeRobust(input, r, tzLoaded) = outcome

\* A slash date that writes its year has resolved, to that year, from a
\* reference time that lies in another year.
C19_Witness ==
  /\ Resolved
  /\ given.form = "slash"
  /\ given.year # Absent
  /\ Civil(ref).year # NamedYear(given)
  /\ outcome.kind = "instant"
  /\ TargetCivil(outcome.time).year = NamedYear(given)

Reparsed(tm, r) == ParseDateTimeRobust(FormatRFC3339(tm), r, tzLoaded)

\* The outcome o is an instant, the same moment as tm to the nanosecond.
IsInstantAt(o, tm) ==
  /\ o.kind = "instant"
  /\ o.time.t = tm.t
  /\ o.time.ns = tm.ns

\* The ISODate of every option of an ambiguous outcome resolves to the
\* option's instant.
OptionsRoundTrip(o) ==
  o.kind = "ambiguous" =>
    \A i \in 1..Len(o.options), r \in YearRefTimes :
      IsInstantAt(ParseDateTimeRobust(o.options[i].isoDate, r, tzLoaded),
                  o.options[i].dateTime)

\* C21 as stated: the RFC 3339 text of every instant the resolver returns
\* resolves again, from every reference time, to an instant equal to it, and
\* the ISODate of every option resolves to the option's instant.
C21_RoundTrip ==
  Resolved =>
    /\ outcome.kind = "instant" =>
         \A r \in YearRefTimes : IsInstantAt(Reparsed(outcome.time, r), outcome.time)
    /\ OptionsRoundTrip(outcome)

\* C21 amended: the RFC 3339 text of every instant the resolver returns
\* resolves again, from every reference time, to that instant without its
\* fraction of a second (to the instant itself when it has none), and the
\* ISODate of every option resolves to the option's instant.
C21_RoundTripToSecond ==
  Resolved =>
    /\ outcome.kind = "instant" =>
         \A r \in YearRefTimes :
           IsInstantAt(Reparsed(outcome.time, r), [outcome.time EXCEPT !.ns = 0])
    /\ OptionsRoundTrip(outcome)

\* An instant with a fraction of a second has been resolved, in summer time,
\* and its RFC 3339 text resolves to the same second.
C21_Witness ==
  /\ Resolved
  /\ outcome.kind = "instant"
  /\ outcome.time.ns # 0
  /\ ZoneOffset(outcome.time.loc, outcome.time.t) = 2 * SecondsPerHour
  /\ Reparsed(outcome.time, ref).kind = "instant"
  /\ Reparsed(outcome.time, ref).time.t = outcome.time.t

\* C22: the originalInput of an ambiguous result is the text the caller
\* passed, character for character, white space at its ends included.
C22_OriginalInputUntouched ==
  (Resolved /\ outcome.kind = "ambiguous") => outcome.originalInput = input

\* The relative input writes an HH:MM.
WritesTime(g) == g.form = "relative" /\ g.time # NoTime

\* C23: a relative input that writes an HH:MM resolves to that hour and
\* minute in the target zone, whatever day-part keyword the text holds.
C23_WrittenTimeWins ==
  (Resolved /\ WritesTime(given)) =>
    /\ outcome.kind = "instant"
    /\ TargetCivil(outcome.time).hour = given.time[1]
    /\ TargetCivil(outcome.time).minute = given.time[2]

\* The lines of a text: the runs of pieces between its line ends.
RECURSIVE LinesOf(_)
LinesOf(text) ==
  IF \A i \in 1..Len(text) : text[i] # "\n" THEN <<text>>
  ELSE LET n == Least({i \in 1..Len(text) : text[i] = "\n"})
       IN <<SubSeq(text, 1, n - 1)>> \o LinesOf(SubSeq(text, n + 1, Len(text)))

\* The lines of the form "<key>) <displayText>".
IsOptionLine(line) == Len(line) = 3 /\ line[2] = ") "

\* C24: the message holds the original input and, for every option in the
\* order of the list, one line "<key>) <displayText>"; its lines of that
\* form are exactly those, none omitted, added or moved.
C24_MessageListsOptions ==
  message # <<>> =>
    /\ \E i \in 1..Len(message) : message[i] = given.originalInput
    /\ SelectSeq(LinesOf(message), IsOptionLine)
         = [i \in 1..Len(given.options) |->
              <<given.options[i].key, ") ", given.options[i].displayText>>]

\* The message of an error with three options, the first and the last the
\* same, has been built.
C24_Witness ==
  /\ message # <<>>
  /\ Len(given.options) = 3
  /\ given.options[1] = given.options[3]
  /\ given.options[1] # given.options[2]
  /\ Len(SelectSeq(LinesOf(message), IsOptionLine)) = 3

\* C25: FormatDateTimeForDisplay returns a text for every instant, in every
\* environment in which the resolver returns a result, and the text shows
\* the civil fields of the instant in the target zone, whatever location
\* the instant is held in.
C25_DisplayNeverFails ==
  shown # NoShown =>
    /\ shown.kind = "text"
    /\ shown.fields = LongFields(TargetCivil(cand))

\* The rows of the encounters table that start at an option of p.
AtOptionOf(p, rows) ==
  {r \in rows : \E i \in 1..Len(p.options) : r.StartDateTime = p.options[i].dateTime}

Rank(p) ==
  IF p.text = K_today THEN 1
  ELSE IF p.text = K_tomorrow THEN 2
  ELSE IF p.text = K_next_week THEN 3
  ELSE IF p.day = Absent THEN 4
  ELSE IF p.day = Sunday THEN 11
  ELSE 4 + p.day

\* What the resolver makes of the phrase p alone.
Alone(p) == ParseDateTimeRobust(p.text, ref, tzLoaded)

\* C27: a text holding two recognised phrases resolves as the phrase that
\* comes first in the priority today, tomorrow, next week, in N days, next
\* monday ... next sunday does alone, wherever the two stand in the text
\* (as one of the two when both have the same place in the priority).
C27_PhrasePriority ==
  (Resolved /\ given.form = "pair") =>
    IF Rank(given.first) < Rank(given.second) THEN outcome = Alone(given.first)
    ELSE IF Rank(given.second) < Rank(given.first) THEN outcome = Alone(given.second)
    ELSE outcome \in {Alone(given.first), Alone(given.second)}

\* "tomorrow, not today" has resolved to the reference date.
C27_Witness ==
  /\ Resolved
  /\ given.form = "pair"
  /\ given.first.text = K_tomorrow
  /\ given.second.text = K_today
  /\ outcome = Alone(given.second)
  /\ outcome # Alone(given.first)

\* C28: every instant a relative input resolves to shows, in the target
\* zone, the HH:MM the text writes (an hour in 0..23 and a minute in 0..59)
\* and lies on the date the phrase denotes: a time out of range in the text
\* never moves the result to another day.
C28_TimeStaysInItsDay ==
  (Resolved /\ given.form = "relative" /\ outcome.kind = "instant") =>
    /\ TargetCivil(outcome.time).hour \in 0..23
    /\ TargetCivil(outcome.time).minute \in 0..59
    /\ given.time # NoTime =>
         /\ TargetCivil(outcome.time).hour = given.time[1]
         /\ TargetCivil(outcome.time).minute = given.time[2]
    /\ OnDateOf(outcome.time, given)

\* C29: a slash input that omits its year resolves, and so does each of its
\* options, in the year of the reference time as seen in the target zone,
\* the year in which "today" resolves from the same reference time.
C29_DefaultYearInTargetZone ==
  (Resolved /\ given.form = "slash" /\ given.year = Absent) =>
    \A tm \in InstantsOf(outcome) :
      /\ TargetCivil(tm).year = TargetCivil(ref).year
      /\ TargetCivil(tm).year
           = TargetCivil(ParseDateTimeRobust(K_today, ref, tzLoaded).time).year

\* C30: "today", alone or with a day part or a time of day in range,
\* resolved with the clock as reference time and validated at once, is
\* accepted whatever the time of day.
C30_SameDayBookingAccepted ==
  (given.form = "relative" /\ given.phrase = K_today /\ TimeAbsentOrInRange(given)
     /\ ref = now /\ outcome.kind = "instant" /\ cand = outcome.time
     /\ verdict # "none") =>
    verdict = "ok"

====
